---------------------------- MODULE Spec2Model ----------------------------
(***************************************************************************)
(* Room Companion: the chat pipeline of prototype/llm.py and               *)
(* prototype/main.py (conversation store, keyword and model classifiers,   *)
(* provider chain, canned responder, escalation rule of room_chat).        *)
(*                                                                         *)
(* Text is a sequence of pieces, each piece a non-empty string.  A user    *)
(* message and every keyword is written one character per piece, so that   *)
(* lower(), strip() and the substring test `word in lower` are computed    *)
(* character by character.  Floats are integers counting hundredths        *)
(* (0.5 is 50).                                                            *)
(***************************************************************************)
EXTENDS Integers, Sequences, FiniteSets, TLC

VARIABLES
    GROQ_API_KEY,        \* llm.GROQ_API_KEY: "" when not configured
    OPENROUTER_API_KEY,  \* llm.OPENROUTER_API_KEY: "" when not configured
    histories,           \* llm._histories: room_id -> list of {role, content}
    questions,           \* rows of the questions table, in insertion order
    alerts,              \* rows of the alerts table, in insertion order
    turns,               \* the room_chat requests: one frame per request
    appends,             \* number of direct store appends made (SpecStore)
    probe,               \* the last direct call of a function under test
    staff,               \* rows of the staff table, in insertion order
    sessions             \* rows of the sessions table

vars == <<GROQ_API_KEY, OPENROUTER_API_KEY, histories, questions, alerts,
          turns, appends, probe, staff, sessions>>

-----------------------------------------------------------------------------
(* Bounds of the model *)

\* Requests handled one after the other
MaxTurns == 1

\* Requests that overlap
MaxOverlap == 2

MaxAppends == 3

MaxFragments == 2

(* Program constants *)

MAX_HISTORY == 20

-----------------------------------------------------------------------------
(* Text *)

UpperCase == <<"A", "B", "C", "D", "E", "F", "G", "H", "I", "J", "K", "L", "M", "N", "O", "P", "Q", "R", "S", "T", "U", "V", "W", "X", "Y", "Z">>

LowerCase == <<"a", "b", "c", "d", "e", "f", "g", "h", "i", "j", "k", "l", "m", "n", "o", "p", "q", "r", "s", "t", "u", "v", "w", "x", "y", "z">>

Whitespace == {" ", "\n", "\t"}

LowerChar(c) ==
    IF \E i \in 1..26 : UpperCase[i] = c
    THEN LowerCase[CHOOSE i \in 1..26 : UpperCase[i] = c]
    ELSE c

\* str.lower()
Lower(s) == [i \in 1..Len(s) |-> LowerChar(s[i])]

\* `w in s` for strings: w occurs as a contiguous run of s
Contains(w, s) ==
    \E i \in 1..(Len(s) - Len(w) + 1) : SubSeq(s, i, i + Len(w) - 1) = w

RECURSIVE LStrip(_)
LStrip(s) ==
    IF s # <<>> /\ Head(s) \in Whitespace THEN LStrip(Tail(s)) ELSE s

RECURSIVE RStrip(_)
RStrip(s) ==
    IF s # <<>> /\ s[Len(s)] \in Whitespace
    THEN RStrip(SubSeq(s, 1, Len(s) - 1))
    ELSE s

\* str.strip()
Strip(s) == RStrip(LStrip(s))

\* any(w in s for w in ws), and the first such w
AnyIn(ws, s) == \E i \in 1..Len(ws) : Contains(ws[i], s)

FirstIn(ws, s) == ws[CHOOSE i \in 1..Len(ws) :
                        /\ Contains(ws[i], s)
                        /\ \A j \in 1..(i - 1) : ~Contains(ws[j], s)]

-----------------------------------------------------------------------------
(* Rooms: the rows init_db seeds into the rooms table *)

Rooms == {"101", "102"}

RoomIds == Rooms \cup {"999"}

get_rooms ==
    [r \in Rooms |->
        IF r = "101" THEN [resident_name |-> "Margaret", mode |-> "standard"]
                     ELSE [resident_name |-> "Harold", mode |-> "memory_support"]]

-----------------------------------------------------------------------------
(* Conversation history (in-memory, per room) *)

_get_history(h, room_id) == h[room_id]

\* Faulty variant, for comparison: history[:MAX_HISTORY], which keeps the oldest entries
Truncated_keep_oldest(history) ==
    IF Len(history) > MAX_HISTORY
    THEN SubSeq(history, 1, MAX_HISTORY)
    ELSE history

\* The list after append and truncation to the last MAX_HISTORY entries
Truncated(history) ==
    IF Len(history) > MAX_HISTORY
    THEN SubSeq(history, Len(history) - MAX_HISTORY + 1, Len(history))
    ELSE history

\* Faulty variant, for comparison: the append without the truncation of lines 84-85
_add_to_history_untruncated(h, room_id, role, content) ==
    [h EXCEPT ![room_id] =
        Append(h[room_id], [role |-> role, content |-> content])]

\* Faulty variant, for comparison: one list shared by all rooms
_add_to_history_shared(h, room_id, role, content) ==
    [r \in DOMAIN h |->
        Truncated(Append(h[r], [role |-> role, content |-> content]))]

_add_to_history(h, room_id, role, content) ==
    [h EXCEPT ![room_id] =
        Truncated(Append(h[room_id], [role |-> role, content |-> content]))]

-----------------------------------------------------------------------------
(* JSON values as Python objects.  Every value carries all four fields so   *)
(* that values of different types can be compared.                          *)

JNull == [t |-> "null", b |-> FALSE, n |-> 0, s |-> <<>>]

JBool(x) == [t |-> "bool", b |-> x, n |-> 0, s |-> <<>>]

\* a number, in hundredths
JNum(x) == [t |-> "num", b |-> FALSE, n |-> x, s |-> <<>>]

JStr(x) == [t |-> "str", b |-> FALSE, n |-> 0, s |-> x]

\* a list of strings, x the text of its elements (<<>>: the empty list)
JList(x) == [t |-> "list", b |-> FALSE, n |-> 0, s |-> x]

\* bool(v)
Truthy(v) ==
    CASE v.t = "null" -> FALSE
      [] v.t = "bool" -> v.b
      [] v.t = "num"  -> v.n # 0
      [] OTHER        -> v.s # <<>>

\* float(s) for a string: the numerals the modelled providers can write
NumeralValue(s) ==
    CASE s = <<"0.9">> -> 90
      [] s = <<"1">>   -> 100
      [] OTHER         -> -1

\* float(v): ok is FALSE when Python raises TypeError or ValueError
ToFloat(v) ==
    CASE v.t = "bool" -> [ok |-> TRUE, val |-> IF v.b THEN 100 ELSE 0]
      [] v.t = "num"  -> [ok |-> TRUE, val |-> v.n]
      [] v.t = "str"  -> [ok |-> NumeralValue(Strip(v.s)) >= 0,
                          val |-> NumeralValue(Strip(v.s))]
      [] OTHER        -> [ok |-> FALSE, val |-> 0]

\* str(v), as an f-string renders it
ToStr(v) ==
    CASE v.t = "null" -> <<"None">>
      [] v.t = "bool" -> IF v.b THEN <<"True">> ELSE <<"False">>
      [] v.t = "num"  -> IF v.n % 100 = 0 THEN <<ToString(v.n \div 100)>>
                         ELSE <<ToString(v.n \div 100), ".",
                                ToString(v.n % 100)>>
      [] v.t = "str"  -> v.s
      [] OTHER        -> <<"[">> \o v.s \o <<"]">>

-----------------------------------------------------------------------------
(* Classification *)

ClassificationResult(is_help_request, severity, confidence, explanation) ==
    [is_help_request |-> is_help_request, severity |-> severity,
     confidence |-> confidence, explanation |-> explanation]

Sev(name) == JStr(<<name>>)

emergency_words ==
    << <<"f", "e", "l", "l">>,
       <<"f", "a", "l", "l">>,
       <<"c", "a", "n", "'", "t", " ", "b", "r", "e", "a", "t", "h", "e">>,
       <<"c", "h", "e", "s", "t", " ", "p", "a", "i", "n">>,
       <<"h", "e", "a", "r", "t">>,
       <<"b", "l", "e", "e", "d", "i", "n", "g">>,
       <<"u", "n", "c", "o", "n", "s", "c", "i", "o", "u", "s">> >>

urgent_words ==
    << <<"p", "a", "i", "n">>,
       <<"h", "u", "r", "t">>,
       <<"s", "i", "c", "k">>,
       <<"d", "i", "z", "z", "y">>,
       <<"n", "a", "u", "s", "e", "o", "u", "s">> >>

help_words ==
    << <<"h", "e", "l", "p">>,
       <<"n", "u", "r", "s", "e">>,
       <<"s", "o", "m", "e", "o", "n", "e">>,
       <<"a", "s", "s", "i", "s", "t", "a", "n", "c", "e">>,
       <<"b", "a", "t", "h", "r", "o", "o", "m">> >>

KeywordMatch(word) == JStr(<<"Keyword match: ">> \o word)

\* Faulty variant, for comparison: the urgent list checked before the emergency list
_keyword_classify_urgent_first(text) ==
    LET lower == Lower(text) IN
    IF AnyIn(urgent_words, lower)
    THEN ClassificationResult(TRUE, Sev("urgent"), 70,
                              KeywordMatch(FirstIn(urgent_words, lower)))
    ELSE IF AnyIn(emergency_words, lower)
    THEN ClassificationResult(TRUE, Sev("emergency"), 80,
                              KeywordMatch(FirstIn(emergency_words, lower)))
    ELSE IF AnyIn(help_words, lower)
    THEN ClassificationResult(TRUE, Sev("routine"), 60,
                              KeywordMatch(FirstIn(help_words, lower)))
    ELSE ClassificationResult(FALSE, Sev("informational"), 90,
                              JStr(<<"No distress keywords detected">>))

\* Faulty variant, for comparison: no final return, so a message without a listed word ends in the
\* last loop's result
_keyword_classify_no_default(text) ==
    LET lower == Lower(text) IN
    IF AnyIn(emergency_words, lower)
    THEN ClassificationResult(TRUE, Sev("emergency"), 80,
                              KeywordMatch(FirstIn(emergency_words, lower)))
    ELSE IF AnyIn(urgent_words, lower)
    THEN ClassificationResult(TRUE, Sev("urgent"), 70,
                              KeywordMatch(FirstIn(urgent_words, lower)))
    ELSE ClassificationResult(TRUE, Sev("routine"), 60,
                              KeywordMatch(<<"help">>))

_keyword_classify(text) ==
    LET lower == Lower(text) IN
    IF AnyIn(emergency_words, lower)
    THEN ClassificationResult(TRUE, Sev("emergency"), 80,
                              KeywordMatch(FirstIn(emergency_words, lower)))
    ELSE IF AnyIn(urgent_words, lower)
    THEN ClassificationResult(TRUE, Sev("urgent"), 70,
                              KeywordMatch(FirstIn(urgent_words, lower)))
    ELSE IF AnyIn(help_words, lower)
    THEN ClassificationResult(TRUE, Sev("routine"), 60,
                              KeywordMatch(FirstIn(help_words, lower)))
    ELSE ClassificationResult(FALSE, Sev("informational"), 90,
                              JStr(<<"No distress keywords detected">>))

-----------------------------------------------------------------------------
(* The provider's answer to the classification prompt.  Its text is cut    *)
(* into pieces at the braces, at the commas between members and around     *)
(* whitespace; a member "key": value is one piece.                         *)

NoMember == [key |-> "", val |-> JNull]

\* The members the lexer of json.loads recognises, with their Python values
Member(p) ==
    CASE p = "\"is_help_request\": true"
            -> [key |-> "is_help_request", val |-> JBool(TRUE)]
      [] p = "\"is_help_request\": false"
            -> [key |-> "is_help_request", val |-> JBool(FALSE)]
      [] p = "\"is_help_request\": \"no\""
            -> [key |-> "is_help_request", val |-> JStr(<<"no">>)]
      [] p = "\"severity\": \"emergency\""
            -> [key |-> "severity", val |-> Sev("emergency")]
      [] p = "\"severity\": \"urgent\""
            -> [key |-> "severity", val |-> Sev("urgent")]
      [] p = "\"severity\": \"routine\""
            -> [key |-> "severity", val |-> Sev("routine")]
      [] p = "\"severity\": \"informational\""
            -> [key |-> "severity", val |-> Sev("informational")]
      [] p = "\"severity\": \"critical\""
            -> [key |-> "severity", val |-> Sev("critical")]
      [] p = "\"severity\": [\"urgent\"]"
            -> [key |-> "severity", val |-> JList(<<"'urgent'">>)]
      [] p = "\"severity\": null"
            -> [key |-> "severity", val |-> JNull]
      [] p = "\"severity\": 3"
            -> [key |-> "severity", val |-> JNum(300)]
      [] p = "\"confidence\": 0.9"
            -> [key |-> "confidence", val |-> JNum(90)]
      [] p = "\"confidence\": 0.5"
            -> [key |-> "confidence", val |-> JNum(50)]
      [] p = "\"confidence\": 0.49"
            -> [key |-> "confidence", val |-> JNum(49)]
      [] p = "\"confidence\": 7"
            -> [key |-> "confidence", val |-> JNum(700)]
      [] p = "\"confidence\": -0.1"
            -> [key |-> "confidence", val |-> JNum(-10)]
      [] p = "\"confidence\": \"0.9\""
            -> [key |-> "confidence", val |-> JStr(<<"0.9">>)]
      [] p = "\"confidence\": \"high\""
            -> [key |-> "confidence", val |-> JStr(<<"high">>)]
      [] p = "\"explanation\": \"pain\""
            -> [key |-> "explanation", val |-> JStr(<<"pain">>)]
      [] p = "\"explanation\": 3"
            -> [key |-> "explanation", val |-> JNum(300)]
      [] OTHER -> NoMember

IsMember(p) == Member(p).key # ""

\* JSON documents that are one piece and no object
ScalarPieces == {"true", "null", "0.9", "\"urgent\"", "[1, 2]"}

NoSpace(s) == SelectSeq(s, LAMBDA p : p \notin Whitespace)

\* The members between the braces: member ("," member)*, or nothing
WellFormedMembers(body) ==
    \/ body = <<>>
    \/ /\ Len(body) % 2 = 1
       /\ \A i \in 1..Len(body) :
             IF i % 2 = 1 THEN IsMember(body[i]) ELSE body[i] = ","

\* The dict of a member list: a later member overrides an earlier one
DictOf(body) ==
    LET idx  == {i \in 1..Len(body) : i % 2 = 1}
        keys == {Member(body[i]).key : i \in idx}
        last(k) == CHOOSE i \in idx :
                      /\ Member(body[i]).key = k
                      /\ \A j \in idx : Member(body[j]).key = k => j <= i
    IN [k \in keys |-> Member(body[last(k)]).val]

EmptyDict == [k \in {} |-> JNull]

\* json.loads(text): ok is FALSE for JSONDecodeError; isdict tells an object
\* from any other document.  It is called on a span without inner braces or
\* on a text in which the pattern found no such span.
json_loads(text) ==
    LET doc  == NoSpace(text)
        body == SubSeq(doc, 2, Len(doc) - 1)
    IN IF /\ Len(doc) >= 2
          /\ doc[1] = "{"
          /\ doc[Len(doc)] = "}"
          /\ WellFormedMembers(body)
       THEN [ok |-> TRUE, isdict |-> TRUE, dict |-> DictOf(body)]
       ELSE IF Len(doc) = 1 /\ doc[1] \in ScalarPieces
       THEN [ok |-> TRUE, isdict |-> FALSE, dict |-> EmptyDict]
       ELSE [ok |-> FALSE, isdict |-> FALSE, dict |-> EmptyDict]

IsBrace(p) == p \in {"{", "}"}

\* The pattern \{[^{}]*\} matches at i and ends at j
MatchAt(raw, i, j) ==
    /\ i < j
    /\ raw[i] = "{"
    /\ raw[j] = "}"
    /\ \A k \in (i + 1)..(j - 1) : ~IsBrace(raw[k])

\* re.search(r'\{[^{}]*\}', raw, re.DOTALL): the leftmost match
re_search(raw) ==
    LET starts == {i \in 1..Len(raw) : \E j \in 1..Len(raw) : MatchAt(raw, i, j)}
    IN IF starts = {}
       THEN [found |-> FALSE, group |-> <<>>]
       ELSE LET i == CHOOSE x \in starts : \A y \in starts : x <= y
                j == CHOOSE y \in 1..Len(raw) : MatchAt(raw, i, y)
            IN [found |-> TRUE, group |-> SubSeq(raw, i, j)]

\* Faulty variant, for comparison: a missing key gives None
Get_no_default(d, key, default) == IF key \in DOMAIN d THEN d[key] ELSE JNull

\* dict.get(key, default)
Get(d, key, default) == IF key \in DOMAIN d THEN d[key] ELSE default

NoResult == ClassificationResult(FALSE, JNull, 0, JNull)

\* classify, lines 184-196: from the provider's text to the result; ok is
\* FALSE when the code raises (json.loads, data.get on a non-dict, float)
ParseClassification(raw0) ==
    LET raw    == Strip(raw0)
        match  == re_search(raw)
        loaded == IF match.found THEN json_loads(match.group)
                                 ELSE json_loads(raw)
        data   == loaded.dict
        conf   == ToFloat(Get(data, "confidence", JNum(50)))
    IN IF loaded.ok /\ loaded.isdict /\ conf.ok
       THEN [ok |-> TRUE,
             result |-> ClassificationResult(
                 Truthy(Get(data, "is_help_request", JBool(FALSE))),
                 Get(data, "severity", Sev("informational")),
                 conf.val,
                 Get(data, "explanation", JStr(<<>>)))]
       ELSE [ok |-> FALSE, result |-> NoResult]

-----------------------------------------------------------------------------
(* System prompt and canned responses *)

\* datetime.now() rendered by the strftime formats the code uses
NowPrompt == "03:15 PM on Monday, March 04"

NowTime == "3:15 PM"

NowDate == "Monday, March 04"

build_system_prompt(room_id, resident_name, mode, current_time) ==
    LET base == <<"You are the Room Companion. You are located in Room ",
                  room_id, ", assisting ", resident_name,
                  ". The current time is ", current_time,
                  ". Role, facility schedule, safety rules.">>
        mode_layer == IF mode = "memory_support"
                      THEN <<"Mode: Memory Support. ", resident_name,
                             " may experience confusion; orient, be patient.">>
                      ELSE <<"Mode: Standard. Be direct and concise.">>
    IN base \o mode_layer

W_where_am_i == <<"w", "h", "e", "r", "e", " ", "a", "m", " ", "i">>

W_what_is_this_place == <<"w", "h", "a", "t", " ", "i", "s", " ", "t", "h", "i", "s", " ", "p", "l", "a", "c", "e">>

W_time == <<"t", "i", "m", "e">>

W_day == <<"d", "a", "y">>

W_date == <<"d", "a", "t", "e">>

W_breakfast == <<"b", "r", "e", "a", "k", "f", "a", "s", "t">>

W_lunch == <<"l", "u", "n", "c", "h">>

W_dinner == <<"d", "i", "n", "n", "e", "r">>

W_meal == <<"m", "e", "a", "l">>

distress_words == << <<"h", "e", "l", "p">>, <<"f", "e", "l", "l">>, <<"f", "a", "l", "l">>, <<"p", "a", "i", "n">>, <<"h", "u", "r", "t">> >>

CannedDistress ==
    <<"I'm letting the staff know right away. Help is on the way - please stay where you are.">>

CannedGeneric ==
    <<"I'm having a little trouble right now, but the staff are always nearby if you need anything.">>

\* Faulty variant, for comparison: the distress keywords are checked first
_canned_response_distress_first(text, room_id, resident_name, mode) ==
    LET lower == Lower(text) IN
    IF AnyIn(distress_words, lower)
    THEN CannedDistress
    ELSE IF Contains(W_where_am_i, lower) \/ Contains(W_what_is_this_place, lower)
    THEN <<"You're in Room ", room_id, " at your care home, ", resident_name,
           ". You're safe here.">>
    ELSE IF Contains(W_time, lower)
    THEN <<"It's ", NowTime, " right now.">>
    ELSE IF Contains(W_day, lower) \/ Contains(W_date, lower)
    THEN <<"Today is ", NowDate, ".">>
    ELSE IF \/ Contains(W_breakfast, lower) \/ Contains(W_lunch, lower)
            \/ Contains(W_dinner, lower) \/ Contains(W_meal, lower)
    THEN <<"Breakfast is at 8:00 AM, lunch at 12:00 PM, and dinner at 5:30 PM.">>
    ELSE CannedGeneric

_canned_response(text, room_id, resident_name, mode) ==
    LET lower == Lower(text) IN
    IF Contains(W_where_am_i, lower) \/ Contains(W_what_is_this_place, lower)
    THEN <<"You're in Room ", room_id, " at your care home, ", resident_name,
           ". You're safe here.">>
    ELSE IF Contains(W_time, lower)
    THEN <<"It's ", NowTime, " right now.">>
    ELSE IF Contains(W_day, lower) \/ Contains(W_date, lower)
    THEN <<"Today is ", NowDate, ".">>
    ELSE IF \/ Contains(W_breakfast, lower) \/ Contains(W_lunch, lower)
            \/ Contains(W_dinner, lower) \/ Contains(W_meal, lower)
    THEN <<"Breakfast is at 8:00 AM, lunch at 12:00 PM, and dinner at 5:30 PM.">>
    ELSE IF AnyIn(distress_words, lower)
    THEN CannedDistress
    ELSE CannedGeneric

-----------------------------------------------------------------------------
(* LLM API caller (Groq primary, OpenRouter fallback).                     *)
(* A call is at "groq" or "openrouter" while its request to that provider  *)
(* is in flight, and ends "returned" (with text) or "raised".  log lists   *)
(* the requests made so far: the provider posted to, the response it gave  *)
(* and the outcome of the attempt.                                         *)

Providers == <<"groq", "openrouter">>

\* What one client.post can come back with
Response(error, status, has_content, content) ==
    [error |-> error, status |-> status, has_content |-> has_content,
     content |-> content]

FailedResponses ==
    { Response("network_error", 0, FALSE, <<>>),
      Response("timeout", 0, FALSE, <<>>),
      Response("none", 500, FALSE, <<>>),
      Response("none", 200, FALSE, <<>>),
      Response("none", 200, TRUE, <<>>),
      Response("none", 200, TRUE, <<" ", "\n">>) }

\* Faulty variant, for comparison: the content returned without the `if content` test
Attempt_unchecked_content(resp) ==
    IF resp.error # "none" THEN [kind |-> resp.error, text |-> <<>>]
    ELSE IF resp.status < 200 \/ resp.status >= 300
    THEN [kind |-> "status", text |-> <<>>]
    ELSE IF ~resp.has_content THEN [kind |-> "malformed", text |-> <<>>]
    ELSE [kind |-> "ok", text |-> Strip(resp.content)]

\* Lines 274-293 and 298-319 for one provider: the outcome of an attempt.
\* client.post raises on a network error or a timeout, raise_for_status on a
\* non-success status, the subscripts on a body without the completion
\* field; an empty content falls through the `if content`.
Attempt(resp) ==
    IF resp.error # "none" THEN [kind |-> resp.error, text |-> <<>>]
    ELSE IF resp.status < 200 \/ resp.status >= 300
    THEN [kind |-> "status", text |-> <<>>]
    ELSE IF ~resp.has_content THEN [kind |-> "malformed", text |-> <<>>]
    ELSE IF Strip(resp.content) = <<>> THEN [kind |-> "empty", text |-> <<>>]
    ELSE [kind |-> "ok", text |-> Strip(resp.content)]

NoCall == [pc |-> "none", log |-> <<>>, text |-> <<>>]

\* Line 321: raise RuntimeError("Both Groq and OpenRouter failed")
Raise(call) == [call EXCEPT !.pc = "raised", !.text = <<>>]

\* Lines 295-321: after Groq was skipped or failed
AfterGroq(call) ==
    IF OPENROUTER_API_KEY # "" THEN [call EXCEPT !.pc = "openrouter"]
    ELSE Raise(call)

\* Faulty variant, for comparison: Groq's text is kept but OpenRouter is asked as well
CallResume_ask_all(call, resp) ==
    LET a      == Attempt(resp)
        logged == [call EXCEPT !.log = Append(@, [provider |-> call.pc,
                                                  resp |-> resp,
                                                  kind |-> a.kind]),
                               !.text = IF a.kind = "ok" THEN a.text ELSE @]
    IN IF call.pc = "groq" /\ OPENROUTER_API_KEY # ""
       THEN [logged EXCEPT !.pc = "openrouter"]
       ELSE IF logged.text # <<>> THEN [logged EXCEPT !.pc = "returned"]
       ELSE Raise(logged)

\* Faulty variant, for comparison: Groq is asked whether or not its key is set
CallBegin_no_key_check == [NoCall EXCEPT !.pc = "groq"]

\* Lines 270-273: the call until its first request is in flight
CallBegin ==
    IF GROQ_API_KEY # "" THEN [NoCall EXCEPT !.pc = "groq"]
    ELSE AfterGroq(NoCall)

\* The call resumed by the response to its request in flight
CallResume(call, resp) ==
    LET a      == Attempt(resp)
        logged == [call EXCEPT !.log = Append(@, [provider |-> call.pc,
                                                  resp |-> resp,
                                                  kind |-> a.kind])]
    IN IF a.kind = "ok"
       THEN [logged EXCEPT !.pc = "returned", !.text = a.text]
       ELSE IF call.pc = "groq" THEN AfterGroq(logged)
       ELSE Raise(logged)

InFlight(call) == call.pc \in {"groq", "openrouter"}

\* The requests a call has made, in order, each with the text it gave
Attempts(call) ==
    [i \in DOMAIN call.log |->
        [provider |-> call.log[i].provider, ok |-> call.log[i].kind = "ok",
         text |-> Attempt(call.log[i].resp).text]]

-----------------------------------------------------------------------------
(* What the environment can send *)

\* "What time is it?": no listed word
MsgTime == <<"W", "h", "a", "t", " ", "t", "i", "m", "e", " ", "i", "s", " ", "i", "t", "?">>

\* " HELP me ": a help word in capitals, with spaces around
MsgHelp == <<" ", "H", "E", "L", "P", " ", "m", "e", " ">>

\* "my hip hurts": an urgent word
MsgHurts == <<"m", "y", " ", "h", "i", "p", " ", "h", "u", "r", "t", "s">>

\* "I think I fell and my hip hurts": an emergency word and an urgent word
MsgThinkFell ==
    <<"I", " ", "t", "h", "i", "n", "k", " ", "I", " ", "f", "e", "l", "l", " ",
      "a", "n", "d", " ", "m", "y", " ", "h", "i", "p", " ", "h", "u", "r", "t",
      "s">>

\* "  ": empty after trimming
MsgBlank == <<" ", " ">>

UserMessages == {MsgThinkFell, MsgTime, MsgHelp, MsgHurts, MsgBlank}

RECURSIVE Commas(_)
Commas(ms) ==
    IF Len(ms) <= 1 THEN ms ELSE <<Head(ms), ",", " ">> \o Commas(Tail(ms))

\* The text of a JSON object with the given members
Obj(ms) == <<"{">> \o Commas(ms) \o <<"}">>

RawUrgent ==
    Obj(<<"\"is_help_request\": true", "\"severity\": \"urgent\"",
          "\"confidence\": 0.9", "\"explanation\": \"pain\"">>)

RawBoundary ==
    Obj(<<"\"is_help_request\": true", "\"severity\": \"urgent\"",
          "\"confidence\": 0.5">>)

RawBelow ==
    Obj(<<"\"is_help_request\": true", "\"severity\": \"urgent\"",
          "\"confidence\": 0.49">>)

RawInformational ==
    Obj(<<"\"is_help_request\": true", "\"severity\": \"informational\"",
          "\"confidence\": 0.9">>)

RawNoHelp ==
    Obj(<<"\"is_help_request\": false", "\"severity\": \"emergency\"",
          "\"confidence\": 0.9">>)

RawProse ==
    <<"Here is the JSON:", "\n">>
    \o Obj(<<"\"severity\": \"routine\"", "\"is_help_request\": true",
             "\"confidence\": \"0.9\"">>)
    \o <<" ", "Hope this helps.">>

RawOutOfRange ==
    Obj(<<"\"is_help_request\": true", "\"severity\": \"critical\"",
          "\"confidence\": 7">>)

RawListSeverity ==
    Obj(<<"\"is_help_request\": true", "\"severity\": [\"urgent\"]",
          "\"confidence\": 0.9">>)

RawNumberSeverity ==
    Obj(<<"\"is_help_request\": true", "\"severity\": 3",
          "\"confidence\": 0.9">>)

RawBadConfidence ==
    Obj(<<"\"is_help_request\": true", "\"severity\": \"urgent\"",
          "\"confidence\": \"high\"">>)

RawNotJson == <<"I cannot classify this message.">>

\* Answers the parse of classify is studied on: objects that lack fields,
\* fields of another type than the prompt asks for, text around the object,
\* braces inside the object, texts without a span between braces
ParseAnswers ==
    [empty |-> Obj(<<>>),
     only_flag |-> Obj(<<"\"is_help_request\": true">>),
     only_severity |-> Obj(<<"\"severity\": \"routine\"">>),
     only_confidence |-> Obj(<<"\"confidence\": 0.9">>),
     only_explanation |-> Obj(<<"\"explanation\": \"pain\"">>),
     string_flag |->
        Obj(<<"\"is_help_request\": \"no\"", "\"severity\": \"urgent\"",
              "\"confidence\": 0.9", "\"explanation\": \"pain\"">>),
     null_severity |->
        Obj(<<"\"is_help_request\": true", "\"severity\": null",
              "\"confidence\": 0.9", "\"explanation\": \"pain\"">>),
     string_confidence |->
        Obj(<<"\"is_help_request\": true", "\"severity\": \"urgent\"",
              "\"confidence\": \"0.9\"", "\"explanation\": \"pain\"">>),
     number_explanation |->
        Obj(<<"\"is_help_request\": true", "\"severity\": \"urgent\"",
              "\"confidence\": 0.9", "\"explanation\": 3">>),
     \* {"is_help_request": true, ..., "explanation": "pain", "meta": {}}
     with_meta |-> SubSeq(RawUrgent, 1, Len(RawUrgent) - 1)
                   \o <<",", " ", "\"meta\": ", "{", "}", "}">>,
     \* {"result": {"is_help_request": true, ...}}
     wrapped |-> <<"{", "\"result\": ">> \o RawUrgent \o <<"}">>,
     two_objects |-> RawNoHelp \o <<"\n", "or", " ">> \o RawUrgent,
     padded |-> <<"\n", " ">> \o RawBelow \o <<" ", "\n">>,
     \* {"is_help_request": true, ..., "explanation": "said {help}"}
     braces_in_text |->
        <<"{", "\"is_help_request\": true", ",", " ",
          "\"severity\": \"urgent\"", ",", " ", "\"confidence\": 0.9", ",",
          " ", "\"explanation\": \"said ", "{", "help", "}", "\"", "}">>,
     unclosed |-> SubSeq(RawUrgent, 1, Len(RawUrgent) - 1),
     scalar |-> <<"true">>]

ParseContents ==
    {RawUrgent, RawProse, RawBadConfidence, RawListSeverity, RawNotJson}
    \cup {ParseAnswers[k] : k \in DOMAIN ParseAnswers}

\* What a provider can answer to the classification prompt
ClassifyContents ==
    {RawUrgent, RawBoundary, RawBelow, RawInformational, RawNoHelp, RawProse,
     RawOutOfRange, RawListSeverity, RawNumberSeverity, RawBadConfidence,
     RawNotJson}

\* What a provider can answer to the chat prompt
ChatContents == { <<" ", "Of course, dear. Lunch is at noon.", "\n">> }

Responses(contents) ==
    FailedResponses \cup {Response("none", 200, TRUE, c) : c \in contents}

-----------------------------------------------------------------------------
(* The frame of one room_chat request *)

\* The requests of the run
TurnIds == DOMAIN turns

ChatIdle ==
    [pc |-> "idle", call |-> NoCall, attempts |-> <<>>, context |-> <<>>,
     served |-> "none", response |-> <<>>]

ClassifyIdle ==
    [pc |-> "idle", call |-> NoCall, attempts |-> <<>>, tier |-> "none",
     raw |-> <<>>, classification |-> NoResult]

\* ChatResponse(response, alert_created, severity), with the HTTP status
ChatResponse(status, response, alert_created, severity) ==
    [status |-> status, response |-> response,
     alert_created |-> alert_created, severity |-> severity]

NoResponse == ChatResponse(0, <<>>, FALSE, JNull)

NewTurn ==
    [pc |-> "new", room_id |-> "", user_message |-> <<>>,
     chat |-> ChatIdle, cls |-> ClassifyIdle,
     alert_id |-> 0, result |-> NoResponse]

\* The frame after its response was sent: nothing of it is left
GoneTurn == [NewTurn EXCEPT !.pc = "gone"]

DidntCatchThat == <<"I didn't catch that. Could you say that again?">>

-----------------------------------------------------------------------------
(* chat: lines 225-243 *)

SystemMessage ==
    [room_id \in Rooms |->
        [role |-> "system",
         content |-> build_system_prompt(room_id,
                         get_rooms[room_id].resident_name,
                         get_rooms[room_id].mode, NowPrompt)]]

\* The functions of the user message, tabulated over the messages the
\* environment sends (room_chat passes them trimmed)
Trimmed == {Strip(m) : m \in UserMessages}

KeywordOf == [m \in Trimmed |-> _keyword_classify(m)]

CannedOf ==
    [room_id \in Rooms |-> [m \in Trimmed |->
        _canned_response(m, room_id, get_rooms[room_id].resident_name,
                         get_rooms[room_id].mode)]]

\* The texts a call can return, and their parse
Returned ==
    {Attempt(r).text :
        r \in Responses(ChatContents \cup ClassifyContents \cup ParseContents)}

ParsedOf == [raw \in Returned |-> ParseClassification(raw)]

\* Faulty variant, for comparison: only Groq's text is used as the reply
ChatReply_primary_only(call, served, user_message, room_id) ==
    IF call.pc = "returned" /\ served = "groq"
    THEN [served |-> served, response |-> call.text]
    ELSE [served |-> "canned", response |-> CannedOf[room_id][user_message]]

\* Lines 235-243 once the call has ended: the reply, and who served it
ChatReply(call, served, user_message, room_id) ==
    IF call.pc = "returned"
    THEN [served |-> served, response |-> call.text]
    ELSE [served |-> "canned", response |-> CannedOf[room_id][user_message]]

\* The chat branch and the store after the call has moved to `call`
ChatStep(frame, h, call, served) ==
    IF InFlight(call)
    THEN [chat |-> [frame.chat EXCEPT !.pc = "waiting", !.call = call],
          histories |-> h]
    ELSE LET reply == ChatReply(call, served, frame.user_message, frame.room_id)
         IN [chat |-> [frame.chat EXCEPT !.pc = "done", !.call = NoCall,
                                         !.attempts = Attempts(call),
                                         !.served = reply.served,
                                         !.response = reply.response],
             histories |-> _add_to_history(h, frame.room_id, "assistant",
                                           reply.response)]

\* Faulty variant, for comparison: the context is built before the user turn
\* is stored
chat_begin_context_first(t) ==
    /\ turns[t].pc = "running"
    /\ turns[t].chat.pc = "ready"
    /\ LET frame == turns[t]
           messages == <<SystemMessage[frame.room_id]>>
                       \o _get_history(histories, frame.room_id)
           h1    == _add_to_history(histories, frame.room_id, "user",
                                    frame.user_message)
           withCtx == [frame EXCEPT !.chat.context = messages]
           step  == ChatStep(withCtx, h1, CallBegin, "none")
       IN /\ turns' = [turns EXCEPT ![t].chat = step.chat]
          /\ histories' = step.histories
    /\ UNCHANGED <<GROQ_API_KEY, OPENROUTER_API_KEY, questions, alerts,
                   appends, probe, staff, sessions>>

\* chat up to its first suspension: the user turn is stored, the context is
\* built from the stored log, and the call starts
chat_begin(t) ==
    /\ turns[t].pc = "running"
    /\ turns[t].chat.pc = "ready"
    /\ LET frame == turns[t]
           h1    == _add_to_history(histories, frame.room_id, "user",
                                    frame.user_message)
           messages == <<SystemMessage[frame.room_id]>>
                       \o _get_history(h1, frame.room_id)
           withCtx == [frame EXCEPT !.chat.context = messages]
           step  == ChatStep(withCtx, h1, CallBegin, "none")
       IN /\ turns' = [turns EXCEPT ![t].chat = step.chat]
          /\ histories' = step.histories
    /\ UNCHANGED <<GROQ_API_KEY, OPENROUTER_API_KEY, questions, alerts,
                   appends, probe, staff, sessions>>

\* Faulty variant, for comparison: a chat call that raises ends the
\* classification of the turn as well, with the keyword result
chat_resume_cancels_sibling(t, resp) ==
    /\ turns[t].pc = "running"
    /\ turns[t].chat.pc = "waiting"
    /\ LET frame == turns[t]
           call  == CallResume(frame.chat.call, resp)
           step  == ChatStep(frame, histories, call, frame.chat.call.pc)
       IN /\ turns' = [turns EXCEPT
                ![t].chat = step.chat,
                ![t].cls = IF call.pc = "raised" /\ frame.cls.pc = "waiting"
                           THEN [@ EXCEPT !.pc = "done", !.call = NoCall,
                                    !.tier = "keyword",
                                    !.classification =
                                        KeywordOf[frame.user_message]]
                           ELSE @]
          /\ histories' = step.histories
    /\ UNCHANGED <<GROQ_API_KEY, OPENROUTER_API_KEY, questions, alerts,
                   appends, probe, staff, sessions>>

\* chat resumed by the response of the provider it waits for
chat_resume(t, resp) ==
    /\ turns[t].pc = "running"
    /\ turns[t].chat.pc = "waiting"
    /\ LET frame == turns[t]
           step  == ChatStep(frame, histories,
                             CallResume(frame.chat.call, resp),
                             frame.chat.call.pc)
       IN /\ turns' = [turns EXCEPT ![t].chat = step.chat]
          /\ histories' = step.histories
    /\ UNCHANGED <<GROQ_API_KEY, OPENROUTER_API_KEY, questions, alerts,
                   appends, probe, staff, sessions>>

-----------------------------------------------------------------------------
(* classify: lines 176-199 *)

\* Faulty variant, for comparison: an exception answered with the defaults of lines 192-195
classify_result_defaults(call, user_message) ==
    LET parsed == ParsedOf[call.text] IN
    IF call.pc = "returned" /\ parsed.ok
    THEN [tier |-> "model", classification |-> parsed.result]
    ELSE [tier |-> "keyword",
          classification |-> ClassificationResult(FALSE, Sev("informational"),
                                                  50, JStr(<<>>))]

\* Lines 181-199 once the call has ended: the model's result when the call
\* returned text that parses, the keyword result on any exception
classify_result(call, user_message) ==
    LET parsed == ParsedOf[call.text] IN
    IF call.pc = "returned" /\ parsed.ok
    THEN [tier |-> "model", classification |-> parsed.result]
    ELSE [tier |-> "keyword", classification |-> KeywordOf[user_message]]

ClassifyStep(frame, call) ==
    IF InFlight(call)
    THEN [frame.cls EXCEPT !.pc = "waiting", !.call = call]
    ELSE LET r == classify_result(call, frame.user_message)
         IN [frame.cls EXCEPT !.pc = "done", !.call = NoCall,
                              !.attempts = Attempts(call),
                              !.raw = call.text, !.tier = r.tier,
                              !.classification = r.classification]

\* classify up to its first suspension; gather starts it after chat
classify_begin(t) ==
    /\ turns[t].pc = "running"
    /\ turns[t].cls.pc = "ready"
    /\ turns[t].chat.pc # "ready"
    /\ turns' = [turns EXCEPT ![t].cls = ClassifyStep(turns[t], CallBegin)]
    /\ UNCHANGED <<GROQ_API_KEY, OPENROUTER_API_KEY, histories, questions,
                   alerts, appends, probe, staff, sessions>>

classify_resume(t, resp) ==
    /\ turns[t].pc = "running"
    /\ turns[t].cls.pc = "waiting"
    /\ turns' = [turns EXCEPT ![t].cls =
                    ClassifyStep(turns[t], CallResume(turns[t].cls.call, resp))]
    /\ UNCHANGED <<GROQ_API_KEY, OPENROUTER_API_KEY, histories, questions,
                   alerts, appends, probe, staff, sessions>>

-----------------------------------------------------------------------------
(* room_chat: main.py lines 476-520 *)

\* Faulty variant, for comparison: a threshold of 0.9 instead of 0.5
EscalationRule_high_confidence(c) ==
    /\ c.is_help_request
    /\ c.confidence >= 90
    /\ c.severity # Sev("informational")

\* Line 507
EscalationRule(c) ==
    /\ c.is_help_request
    /\ c.confidence >= 50
    /\ c.severity # Sev("informational")

\* sqlite3 binds str, int, float and None; alerts.severity is NOT NULL
DbAcceptsSeverity(v) == v.t \in {"str", "num", "bool"}

\* The value read back from a TEXT column: a number is stored as its text
\* (True is bound as the integer 1)
DbText(v) ==
    CASE v.t = "num"  -> JStr(ToStr(v))
      [] v.t = "bool" -> JStr(<<IF v.b THEN "1" ELSE "0">>)
      [] OTHER        -> v

\* ChatResponse(..., severity=v) for the field `severity: Optional[str]`:
\* a text or None is taken as it is; a number is refused by pydantic 2
\* (ValidationError) and turned into its text by pydantic 1; the source pins
\* neither version
ValidatedSeverity(v) ==
    CASE v.t \in {"str", "null"} -> {[ok |-> TRUE, severity |-> v]}
      [] v.t \in {"num", "bool"} -> {[ok |-> FALSE, severity |-> JNull],
                                     [ok |-> TRUE, severity |-> JStr(ToStr(v))]}
      [] OTHER -> {[ok |-> FALSE, severity |-> JNull]}

\* Faulty variant, for comparison: the severity column left to its default
AlertRow_default_severity(id, room_id, classification, user_message) ==
    [id |-> id, room_id |-> room_id,
     resident_name |-> get_rooms[room_id].resident_name,
     type |-> "help",
     message |-> <<"[">> \o ToStr(classification.severity) \o <<"] ">>
                 \o user_message,
     status |-> "new",
     severity |-> Sev("routine")]

AlertRow(id, room_id, classification, user_message) ==
    [id |-> id, room_id |-> room_id,
     resident_name |-> get_rooms[room_id].resident_name,
     type |-> "help",
     message |-> <<"[">> \o ToStr(classification.severity) \o <<"] ">>
                 \o user_message,
     status |-> "new",
     severity |-> DbText(classification.severity)]

QuestionRow(room_id, user_message, response_text) ==
    [room_id |-> room_id,
     resident_name |-> get_rooms[room_id].resident_name,
     question |-> user_message, response |-> response_text]

\* Faulty variant, for comparison: no test of the trimmed message
room_chat_no_fast_path(t, room_id, message) ==
    /\ turns[t].pc = "new"
    /\ \A s \in TurnIds : s < t => turns[s].pc # "new"
    /\ LET user_message == Strip(message) IN
       turns' = [turns EXCEPT ![t] =
          IF room_id \notin DOMAIN get_rooms
          THEN [@ EXCEPT !.pc = "returned", !.room_id = room_id,
                         !.result = ChatResponse(404, <<"Unknown room">>,
                                                 FALSE, JNull)]
          ELSE [@ EXCEPT !.pc = "running", !.room_id = room_id,
                         !.user_message = user_message,
                         !.chat.pc = "ready", !.cls.pc = "ready"]]
    /\ UNCHANGED <<GROQ_API_KEY, OPENROUTER_API_KEY, histories, questions,
                   alerts, appends, probe, staff, sessions>>

\* Lines 480-494: the request until it waits for its two branches
room_chat(t, room_id, message) ==
    /\ turns[t].pc = "new"
    /\ \A s \in TurnIds : s < t => turns[s].pc # "new"
    /\ LET user_message == Strip(message) IN
       turns' = [turns EXCEPT ![t] =
          IF room_id \notin DOMAIN get_rooms
          THEN [@ EXCEPT !.pc = "returned", !.room_id = room_id,
                         !.result = ChatResponse(404, <<"Unknown room">>,
                                                 FALSE, JNull)]
          ELSE IF user_message = <<>>
          THEN [@ EXCEPT !.pc = "returned", !.room_id = room_id,
                         !.result = ChatResponse(200, DidntCatchThat,
                                                 FALSE, JNull)]
          ELSE [@ EXCEPT !.pc = "running", !.room_id = room_id,
                         !.user_message = user_message,
                         !.chat.pc = "ready", !.cls.pc = "ready"]]
    /\ UNCHANGED <<GROQ_API_KEY, OPENROUTER_API_KEY, histories, questions,
                   alerts, appends, probe, staff, sessions>>

\* Faulty variant, for comparison: the handler goes on as soon as chat is done
room_chat_join_race(t) ==
    /\ turns[t].pc = "running"
    /\ turns[t].chat.pc = "done"
    /\ LET frame == turns[t]
           c     == frame.cls.classification
           response_text == frame.chat.response
           id    == Len(alerts) + 1
       IN IF EscalationRule(c) /\ ~DbAcceptsSeverity(c.severity)
          THEN /\ turns' = [turns EXCEPT ![t].pc = "failed",
                               ![t].result = ChatResponse(500, <<>>, FALSE, JNull)]
               /\ UNCHANGED <<questions, alerts>>
          ELSE /\ questions' = Append(questions,
                      QuestionRow(frame.room_id, frame.user_message,
                                  response_text))
               /\ alerts' = IF EscalationRule(c)
                            THEN Append(alerts, AlertRow(id, frame.room_id, c,
                                                         frame.user_message))
                            ELSE alerts
               /\ \E v \in ValidatedSeverity(IF EscalationRule(c)
                                               THEN c.severity ELSE JNull) :
                     turns' = [turns EXCEPT
                        ![t].pc = IF v.ok THEN "returned" ELSE "failed",
                        ![t].alert_id = IF EscalationRule(c) THEN id ELSE 0,
                        ![t].result =
                           IF v.ok
                           THEN ChatResponse(200, response_text,
                                             EscalationRule(c), v.severity)
                           ELSE ChatResponse(500, <<>>, FALSE, JNull)]
    /\ UNCHANGED <<GROQ_API_KEY, OPENROUTER_API_KEY, histories, appends, probe,
                   staff, sessions>>

\* Faulty variant, for comparison: the alert is inserted twice
room_chat_join_two_alerts(t) ==
    /\ turns[t].pc = "running"
    /\ turns[t].chat.pc = "done"
    /\ turns[t].cls.pc = "done"
    /\ LET frame == turns[t]
           c     == frame.cls.classification
           response_text == frame.chat.response
           id    == Len(alerts) + 1
       IN IF EscalationRule(c) /\ ~DbAcceptsSeverity(c.severity)
          THEN /\ turns' = [turns EXCEPT ![t].pc = "failed",
                               ![t].result = ChatResponse(500, <<>>, FALSE, JNull)]
               /\ UNCHANGED <<questions, alerts>>
          ELSE /\ questions' = Append(questions,
                      QuestionRow(frame.room_id, frame.user_message,
                                  response_text))
               /\ alerts' = IF EscalationRule(c)
                            THEN Append(alerts, AlertRow(id, frame.room_id, c,
                                                         frame.user_message))
                                 \o <<AlertRow(id + 1, frame.room_id, c,
                                               frame.user_message)>>
                            ELSE alerts
               /\ \E v \in ValidatedSeverity(IF EscalationRule(c)
                                               THEN c.severity ELSE JNull) :
                     turns' = [turns EXCEPT
                        ![t].pc = IF v.ok THEN "returned" ELSE "failed",
                        ![t].alert_id = IF EscalationRule(c) THEN id ELSE 0,
                        ![t].result =
                           IF v.ok
                           THEN ChatResponse(200, response_text,
                                             EscalationRule(c), v.severity)
                           ELSE ChatResponse(500, <<>>, FALSE, JNull)]
    /\ UNCHANGED <<GROQ_API_KEY, OPENROUTER_API_KEY, histories, appends, probe,
                   staff, sessions>>

\* Lines 494-520: both branches are done; the question is logged, the rule
\* decides, the alert is inserted and the transaction committed.  An
\* exception of the alert insert leaves the handler before the commit, one
\* of the response model leaves it after the commit.
room_chat_join(t) ==
    /\ turns[t].pc = "running"
    /\ turns[t].chat.pc = "done"
    /\ turns[t].cls.pc = "done"
    /\ LET frame == turns[t]
           c     == frame.cls.classification
           response_text == frame.chat.response
           id    == Len(alerts) + 1
       IN IF EscalationRule(c) /\ ~DbAcceptsSeverity(c.severity)
          THEN /\ turns' = [turns EXCEPT ![t].pc = "failed",
                               ![t].result = ChatResponse(500, <<>>, FALSE, JNull)]
               /\ UNCHANGED <<questions, alerts>>
          ELSE /\ questions' = Append(questions,
                      QuestionRow(frame.room_id, frame.user_message,
                                  response_text))
               /\ alerts' = IF EscalationRule(c)
                            THEN Append(alerts, AlertRow(id, frame.room_id, c,
                                                         frame.user_message))
                            ELSE alerts
               /\ \E v \in ValidatedSeverity(IF EscalationRule(c)
                                               THEN c.severity ELSE JNull) :
                     turns' = [turns EXCEPT
                        ![t].pc = IF v.ok THEN "returned" ELSE "failed",
                        ![t].alert_id = IF EscalationRule(c) THEN id ELSE 0,
                        ![t].result =
                           IF v.ok
                           THEN ChatResponse(200, response_text,
                                             EscalationRule(c), v.severity)
                           ELSE ChatResponse(500, <<>>, FALSE, JNull)]
    /\ UNCHANGED <<GROQ_API_KEY, OPENROUTER_API_KEY, histories, appends, probe,
                   staff, sessions>>

\* The response (or the error) has been sent and the frame is dropped
deliver(t) ==
    /\ turns[t].pc \in {"returned", "failed"}
    /\ turns' = [turns EXCEPT ![t] = GoneTurn]
    /\ UNCHANGED <<GROQ_API_KEY, OPENROUTER_API_KEY, histories, questions,
                   alerts, appends, probe, staff, sessions>>

-----------------------------------------------------------------------------
(* Staff accounts and sessions: auth.py and the staff routes of main.py *)

\* bcrypt.hashpw: a salted digest that only checkpw relates to the password
hash_password(password) == <<"$2b$12$", password>>

verify_password(password, stored_hash) ==
    stored_hash = hash_password(password)

U_admin == <<"a", "d", "m", "i", "n">>

\* init_db, lines 173-181: the staff table is seeded with one admin
SeededStaff ==
    << [id |-> 1, username |-> U_admin, display_name |-> "Admin",
        password_hash |-> hash_password("admin1234"), role |-> "admin",
        is_active |-> 1, last_login_at |-> JNull] >>

\* None
NoStaff ==
    [id |-> 0, username |-> <<>>, display_name |-> "", password_hash |-> <<>>,
     role |-> "", is_active |-> 0, last_login_at |-> JNull]

\* The usernames typed into the forms
Usernames ==
    { U_admin, <<" ", "K", "i", "m">>, <<"k", "i", "m">>, <<"l", "e", "e">>,
      <<" ">> }

\* username.strip().lower(), tabulated over the usernames typed and their
\* trimmed forms
Normalized ==
    [u \in Usernames \cup {Strip(u) : u \in Usernames} |-> Lower(Strip(u))]

get_staff_by_username(st, username) ==
    LET key == Normalized[username]
    IN IF \E i \in DOMAIN st : st[i].username = key
       THEN st[CHOOSE i \in DOMAIN st : st[i].username = key]
       ELSE NoStaff

get_staff_by_id(st, staff_id) ==
    IF \E i \in DOMAIN st : st[i].id = staff_id
    THEN st[CHOOSE i \in DOMAIN st : st[i].id = staff_id]
    ELSE NoStaff

create_staff(st, username, display_name, password, role) ==
    Append(st, [id |-> Len(st) + 1, username |-> Normalized[username],
                display_name |-> display_name,
                password_hash |-> hash_password(password), role |-> role,
                is_active |-> 1, last_login_at |-> JNull])

\* update_staff(conn, staff_id, display_name=..., role=...[, password=...])
update_staff(st, staff_id, display_name, role, password) ==
    [i \in DOMAIN st |->
        IF st[i].id = staff_id
        THEN [st[i] EXCEPT !.display_name = display_name, !.role = role,
                           !.password_hash = IF password # ""
                                             THEN hash_password(password)
                                             ELSE @]
        ELSE st[i]]

\* Faulty variant, for comparison: the sessions of the account are kept
deactivate_staff_keeps_sessions(st, se, staff_id) ==
    [staff |-> [i \in DOMAIN st |->
                   IF st[i].id = staff_id
                   THEN [st[i] EXCEPT !.is_active = 0] ELSE st[i]],
     sessions |-> se]

\* auth.py lines 103-107
deactivate_staff(st, se, staff_id) ==
    [staff |-> [i \in DOMAIN st |->
                   IF st[i].id = staff_id
                   THEN [st[i] EXCEPT !.is_active = 0] ELSE st[i]],
     sessions |-> {s \in se : s.staff_id # staff_id}]

\* The csrf token drawn with the session token k
CsrfOf(k) == k + 100

\* auth.py lines 114-129; the token is drawn by the caller
SESSION_EXPIRY_HOURS == 8

\* Lines 119-120, 125: created_at is the time of the login, expires_at is
\* SESSION_EXPIRY_HOURS later.  A session carries its age, the hours from
\* created_at to now.
create_session(se, token, staff_id, staff_name) ==
    se \cup {[token |-> token, staff_name |-> staff_name,
              staff_id |-> staff_id, csrf_token |-> CsrfOf(token),
              age |-> 0]}

\* Faulty variant, for comparison: expires_at <= utcnow()
Expired_at_expiry(s) == s.age >= SESSION_EXPIRY_HOURS

\* Line 144: expires_at < utcnow()
Expired(s) == s.age > SESSION_EXPIRY_HOURS

\* None
NoSession ==
    [token |-> 0, staff_id |-> 0, staff_name |-> "", role |-> "",
     csrf_token |-> 0]

\* auth.py lines 132-160 behind get_current_staff (main.py 215-222): an
\* expired session is deleted; the role is read from the staff table
get_session(se, st, token) ==
    IF token = 0 \/ ~\E s \in se : s.token = token
    THEN [session |-> NoSession, sessions |-> se]
    ELSE LET row == CHOOSE s \in se : s.token = token
             account == get_staff_by_id(st, row.staff_id)
         IN IF Expired(row)
            THEN [session |-> NoSession, sessions |-> se \ {row}]
            ELSE [session |-> [token |-> row.token, staff_id |-> row.staff_id,
                               staff_name |-> row.staff_name,
                               role |-> IF account = NoStaff THEN "nurse"
                                        ELSE account.role,
                               csrf_token |-> row.csrf_token],
                  sessions |-> se]

delete_session(se, token) == {s \in se : s.token # token}

-----------------------------------------------------------------------------
(* The pipeline, one request at a time *)

NoProbe == [op |-> "none", room_id |-> "", text |-> <<>>,
            entry |-> [role |-> "", content |-> <<>>],
            result |-> NoResult, call |-> NoCall, tier |-> ""]

KeyValues(k) == {"", k}

Init ==
    /\ GROQ_API_KEY \in KeyValues("gsk_key")
    /\ OPENROUTER_API_KEY \in KeyValues("sk-or-key")
    /\ histories = [r \in Rooms |-> <<>>]
    /\ questions = <<>>
    /\ alerts = <<>>
    /\ turns = [t \in 1..MaxTurns |-> NewTurn]
    /\ appends = 0
    /\ staff = SeededStaff
    /\ sessions = {}
    /\ probe = NoProbe

\* No other request is being handled
Alone(t) == \A s \in TurnIds \ {t} : turns[s].pc \in {"new", "gone"}

Next ==
    \/ \E t \in TurnIds, room_id \in RoomIds, message \in UserMessages :
          Alone(t) /\ room_chat(t, room_id, message)
    \/ \E t \in TurnIds : chat_begin(t)
    \/ \E t \in TurnIds, resp \in Responses(ChatContents) : chat_resume(t, resp)
    \/ \E t \in TurnIds : classify_begin(t)
    \/ \E t \in TurnIds, resp \in Responses(ClassifyContents) :
          classify_resume(t, resp)
    \/ \E t \in TurnIds : room_chat_join(t)
    \/ \E t \in TurnIds : deliver(t)

Spec == Init /\ [][Next]_vars

\* The same pipeline with its scheduling: the event loop runs every task
\* that is ready (both branches, the handler after gather), and every
\* request in flight ends by a response, an error or the timeout of
\* httpx.AsyncClient(timeout=TIMEOUT)
Fairness ==
    \A t \in 1..MaxTurns :
        /\ WF_vars(chat_begin(t))
        /\ WF_vars(\E resp \in Responses(ChatContents) : chat_resume(t, resp))
        /\ WF_vars(classify_begin(t))
        /\ WF_vars(\E resp \in Responses(ClassifyContents) :
                      classify_resume(t, resp))
        /\ WF_vars(room_chat_join(t))
        /\ WF_vars(deliver(t))

SpecLive == Init /\ [][Next]_vars /\ Fairness

-----------------------------------------------------------------------------
(* The pipeline with requests that overlap: room_chat is a coroutine, so a  *)
(* second request can be accepted while the first one waits for a provider, *)
(* also for the same room.  Every step between two awaits is one action.    *)

OverlapMessages == {MsgThinkFell, MsgTime, MsgBlank}

OverlapChatResponses ==
    { Response("timeout", 0, FALSE, <<>>),
      Response("none", 500, FALSE, <<>>) }
    \cup {Response("none", 200, TRUE, c) : c \in ChatContents}

OverlapClassifyResponses ==
    { Response("timeout", 0, FALSE, <<>>),
      Response("none", 500, FALSE, <<>>),
      Response("none", 200, TRUE, RawUrgent),
      Response("none", 200, TRUE, RawListSeverity) }

NextOverlap ==
    \/ \E t \in TurnIds, room_id \in Rooms, message \in OverlapMessages :
          room_chat(t, room_id, message)
    \/ \E t \in TurnIds : chat_begin(t)
    \/ \E t \in TurnIds, resp \in OverlapChatResponses : chat_resume(t, resp)
    \/ \E t \in TurnIds : classify_begin(t)
    \/ \E t \in TurnIds, resp \in OverlapClassifyResponses :
          classify_resume(t, resp)
    \/ \E t \in TurnIds : room_chat_join(t)
    \/ \E t \in TurnIds : deliver(t)

InitOverlap ==
    /\ GROQ_API_KEY \in KeyValues("gsk_key")
    /\ OPENROUTER_API_KEY \in KeyValues("sk-or-key")
    /\ histories = [r \in Rooms |-> <<>>]
    /\ questions = <<>>
    /\ alerts = <<>>
    /\ turns = [t \in 1..MaxOverlap |-> NewTurn]
    /\ appends = 0
    /\ staff = SeededStaff
    /\ sessions = {}
    /\ probe = NoProbe

SpecOverlap == InitOverlap /\ [][NextOverlap]_vars

-----------------------------------------------------------------------------
(* One _call_llm call on its own: any configuration of the two keys, any   *)
(* response to each request                                                *)

InitCall ==
    /\ GROQ_API_KEY \in KeyValues("gsk_key")
    /\ OPENROUTER_API_KEY \in KeyValues("sk-or-key")
    /\ histories = [r \in Rooms |-> <<>>]
    /\ questions = <<>>
    /\ alerts = <<>>
    /\ turns = [t \in 1..MaxTurns |-> NewTurn]
    /\ appends = 0
    /\ staff = SeededStaff
    /\ sessions = {}
    /\ probe = [NoProbe EXCEPT !.op = "_call_llm"]

call_begin ==
    /\ probe.call.pc = "none"
    /\ probe' = [probe EXCEPT !.call = CallBegin]
    /\ UNCHANGED <<GROQ_API_KEY, OPENROUTER_API_KEY, histories, questions,
                   alerts, turns, appends, staff, sessions>>

call_resume(resp) ==
    /\ InFlight(probe.call)
    /\ probe' = [probe EXCEPT !.call = CallResume(probe.call, resp)]
    /\ UNCHANGED <<GROQ_API_KEY, OPENROUTER_API_KEY, histories, questions,
                   alerts, turns, appends, staff, sessions>>

NextCall ==
    \/ call_begin
    \/ \E resp \in Responses(ChatContents \cup ClassifyContents) :
          call_resume(resp)

SpecCall == InitCall /\ [][NextCall]_vars

-----------------------------------------------------------------------------
(* The conversation store on its own: appends to logs that earlier turns   *)
(* have filled                                                             *)

\* The log after k alternating appends of earlier turns
WarmLog(k) ==
    [i \in 1..k |-> [role |-> IF i % 2 = 1 THEN "user" ELSE "assistant",
                     content |-> <<"turn ", ToString(i)>>]]

WarmLengths == {0, MAX_HISTORY - 2, MAX_HISTORY - 1, MAX_HISTORY}

Roles == {"user", "assistant"}

AppendContents == {Strip(MsgHelp), CannedGeneric}

InitStore ==
    /\ GROQ_API_KEY = ""
    /\ OPENROUTER_API_KEY = ""
    /\ histories \in [Rooms -> {WarmLog(k) : k \in WarmLengths}]
    /\ questions = <<>>
    /\ alerts = <<>>
    /\ turns = [t \in 1..MaxTurns |-> NewTurn]
    /\ appends = 0
    /\ staff = SeededStaff
    /\ sessions = {}
    /\ probe = NoProbe

store_append(room_id, role, content) ==
    /\ appends < MaxAppends
    /\ histories' = _add_to_history(histories, room_id, role, content)
    /\ appends' = appends + 1
    /\ probe' = [NoProbe EXCEPT !.op = "_add_to_history", !.room_id = room_id,
                                !.entry = [role |-> role, content |-> content]]
    /\ UNCHANGED <<GROQ_API_KEY, OPENROUTER_API_KEY, questions, alerts, turns,
                   staff, sessions>>

NextStore ==
    \E room_id \in Rooms, role \in Roles, content \in AppendContents :
        store_append(room_id, role, content)

SpecStore == InitStore /\ [][NextStore]_vars

-----------------------------------------------------------------------------
(* The pipeline behind one tablet per room: the requests of one room come  *)
(* one at a time, those of different rooms overlap, and the logs have been *)
(* filled by earlier turns                                                 *)

\* The lengths of a log between two turns of its room
RestLengths == {0, MAX_HISTORY - 2, MAX_HISTORY}

\* No other request of the room is being handled
RoomFree(t, room_id) ==
    \A s \in TurnIds \ {t} :
        turns[s].pc = "running" => turns[s].room_id # room_id

InitRooms ==
    /\ GROQ_API_KEY \in KeyValues("gsk_key")
    /\ OPENROUTER_API_KEY \in KeyValues("sk-or-key")
    /\ histories \in [Rooms -> {WarmLog(k) : k \in RestLengths}]
    /\ questions = <<>>
    /\ alerts = <<>>
    /\ turns = [t \in 1..MaxOverlap |-> NewTurn]
    /\ appends = 0
    /\ staff = SeededStaff
    /\ sessions = {}
    /\ probe = NoProbe

RoomsChatResponses ==
    { Response("timeout", 0, FALSE, <<>>) }
    \cup {Response("none", 200, TRUE, c) : c \in ChatContents}

RoomsClassifyResponses ==
    { Response("none", 500, FALSE, <<>>),
      Response("none", 200, TRUE, RawUrgent) }

NextRooms ==
    \/ \E t \in TurnIds, room_id \in Rooms, message \in OverlapMessages :
          RoomFree(t, room_id) /\ room_chat(t, room_id, message)
    \/ \E t \in TurnIds : chat_begin(t)
    \/ \E t \in TurnIds, resp \in RoomsChatResponses : chat_resume(t, resp)
    \/ \E t \in TurnIds : classify_begin(t)
    \/ \E t \in TurnIds, resp \in RoomsClassifyResponses :
          classify_resume(t, resp)
    \/ \E t \in TurnIds : room_chat_join(t)
    \/ \E t \in TurnIds : deliver(t)

SpecRooms == InitRooms /\ [][NextRooms]_vars

-----------------------------------------------------------------------------
(* The keyword classifier on its own, over messages made of fragments      *)

Fragments ==
    { <<"I", " ", "f", "e", "l", "l">>,
      <<"P", "A", "I", "N">>,
      <<"H", "e", "l", "p">>,
      <<"f", "e", "l", "l", "o", "w">>,
      <<"W", "h", "a", "t", " ", "t", "i", "m", "e", " ", "i", "s", " ", "i", "t", "?">>,
      <<"m", "y", " ", "h", "e", "a", "r", "t">>,
      <<"s", "o", " ", "d", "i", "z", "z", "y">>,
      <<"b", "a", "t", "h", "r", "o", "o", "m">>,
      <<"h", "e", "l", "l", "o">> }

RECURSIVE Sentence(_)
Sentence(fs) ==
    IF fs = <<>> THEN <<>>
    ELSE IF Len(fs) = 1 THEN Head(fs)
    ELSE Head(fs) \o <<" ">> \o Sentence(Tail(fs))

KeywordMessages ==
    {Sentence(fs) : fs \in UNION {[1..n -> Fragments] : n \in 0..MaxFragments}}

InitKeyword ==
    /\ GROQ_API_KEY = ""
    /\ OPENROUTER_API_KEY = ""
    /\ histories = [r \in Rooms |-> <<>>]
    /\ questions = <<>>
    /\ alerts = <<>>
    /\ turns = [t \in 1..MaxTurns |-> NewTurn]
    /\ appends = 0
    /\ staff = SeededStaff
    /\ sessions = {}
    /\ \E text \in KeywordMessages :
          probe = [NoProbe EXCEPT !.op = "pending", !.text = text]

keyword_classify ==
    /\ probe.op = "pending"
    /\ probe' = [probe EXCEPT !.op = "_keyword_classify",
                              !.result = _keyword_classify(probe.text)]
    /\ UNCHANGED <<GROQ_API_KEY, OPENROUTER_API_KEY, histories, questions,
                   alerts, turns, appends, staff, sessions>>

NextKeyword == keyword_classify

SpecKeyword == InitKeyword /\ [][NextKeyword]_vars

-----------------------------------------------------------------------------
(* classify on its own: any configuration of the two keys, any user      *)
(* message, any response to each request, a wider choice of answers       *)

InitClassify ==
    /\ GROQ_API_KEY \in KeyValues("gsk_key")
    /\ OPENROUTER_API_KEY \in KeyValues("sk-or-key")
    /\ histories = [r \in Rooms |-> <<>>]
    /\ questions = <<>>
    /\ alerts = <<>>
    /\ turns = [t \in 1..MaxTurns |-> NewTurn]
    /\ appends = 0
    /\ staff = SeededStaff
    /\ sessions = {}
    /\ \E user_message \in Trimmed :
          probe = [NoProbe EXCEPT !.op = "pending", !.text = user_message]

\* Line 182 up to the first request of _call_llm
classify_call ==
    /\ probe.op = "pending"
    /\ probe.call.pc = "none"
    /\ probe' = [probe EXCEPT !.call = CallBegin]
    /\ UNCHANGED <<GROQ_API_KEY, OPENROUTER_API_KEY, histories, questions,
                   alerts, turns, appends, staff, sessions>>

classify_receive(resp) ==
    /\ probe.op = "pending"
    /\ InFlight(probe.call)
    /\ probe' = [probe EXCEPT !.call = CallResume(probe.call, resp)]
    /\ UNCHANGED <<GROQ_API_KEY, OPENROUTER_API_KEY, histories, questions,
                   alerts, turns, appends, staff, sessions>>

\* Lines 184-199 once _call_llm has returned or raised
classify_return ==
    /\ probe.op = "pending"
    /\ probe.call.pc \in {"returned", "raised"}
    /\ LET r == classify_result(probe.call, probe.text)
       IN probe' = [probe EXCEPT !.op = "classify", !.tier = r.tier,
                                 !.result = r.classification]
    /\ UNCHANGED <<GROQ_API_KEY, OPENROUTER_API_KEY, histories, questions,
                   alerts, turns, appends, staff, sessions>>

NextClassify ==
    \/ classify_call
    \/ \E resp \in Responses(ParseContents) : classify_receive(resp)
    \/ classify_return

SpecClassify == InitClassify /\ [][NextClassify]_vars

-----------------------------------------------------------------------------
(* _canned_response on its own: any room, messages made of fragments that *)
(* hit each category, several categories at once, or none                 *)

CannedFragments ==
    { <<"W", "h", "e", "r", "e", " ", "a", "m", " ", "I", "?">>,
      <<"w", "h", "a", "t", " ", "i", "s", " ", "t", "h", "i", "s", " ", "p", "l", "a", "c", "e">>,
      <<"W", "h", "a", "t", " ", "T", "I", "M", "E", " ", "i", "s", " ", "i", "t">>,
      <<"s", "o", "m", "e", "t", "i", "m", "e", "s">>,
      <<"w", "h", "a", "t", " ", "d", "a", "y">>,
      <<"u", "p", "d", "a", "t", "e">>,
      <<"L", "u", "n", "c", "h", "?">>,
      <<"m", "e", "a", "l", "s">>,
      <<"H", "E", "L", "P">>,
      <<"i", "t", " ", "h", "u", "r", "t", "s">>,
      <<"h", "e", "l", "l", "o">> }

CannedMessages ==
    {Sentence(fs) :
        fs \in UNION {[1..n -> CannedFragments] : n \in 0..MaxFragments}}

InitCanned ==
    /\ GROQ_API_KEY = ""
    /\ OPENROUTER_API_KEY = ""
    /\ histories = [r \in Rooms |-> <<>>]
    /\ questions = <<>>
    /\ alerts = <<>>
    /\ turns = [t \in 1..MaxTurns |-> NewTurn]
    /\ appends = 0
    /\ staff = SeededStaff
    /\ sessions = {}
    /\ \E text \in CannedMessages, room_id \in Rooms :
          probe = [NoProbe EXCEPT !.op = "pending", !.text = text,
                                  !.room_id = room_id]

canned_response ==
    /\ probe.op = "pending"
    /\ probe' = [probe EXCEPT
                    !.op = "_canned_response",
                    !.entry = [role |-> "assistant",
                               content |-> _canned_response(
                                   probe.text, probe.room_id,
                                   get_rooms[probe.room_id].resident_name,
                                   get_rooms[probe.room_id].mode)]]
    /\ UNCHANGED <<GROQ_API_KEY, OPENROUTER_API_KEY, histories, questions,
                   alerts, turns, appends, staff, sessions>>

NextCanned == canned_response

SpecCanned == InitCanned /\ [][NextCanned]_vars

-----------------------------------------------------------------------------
(* The alert endpoints of main.py: create, acknowledge, resolve.  The rows *)
(* carry the columns the updates write; None is JNull.                    *)

\* Alerts created in a run
MaxAlerts == 2

\* Pieces of the notes of one alert
MaxNoteLen == 3

NowIso == JStr(<<"2024-03-04T15:15:00">>)

\* datetime.utcnow().isoformat() of the requests
Times == {NowIso, JStr(<<"2024-03-04T16:40:00">>)}

StaffNames == {JNull, JStr(<<"Nurse Kim">>)}

NoteInputs == {JNull, JStr(<<>>), JStr(<<"checked">>)}

\* Lines 319-335: the row is inserted with the status 'new'
create_alert(room_id, type, message, severity) ==
    /\ Len(alerts) < MaxAlerts
    /\ alerts' = Append(alerts,
          [id |-> Len(alerts) + 1, room_id |-> room_id,
           resident_name |-> get_rooms[room_id].resident_name,
           type |-> type, message |-> message, status |-> "new",
           severity |-> JStr(<<severity>>),
           acknowledged_at |-> JNull, resolved_at |-> JNull,
           acknowledged_by |-> JNull, resolved_by |-> JNull,
           notes |-> JNull])
    /\ probe' = [NoProbe EXCEPT !.op = "alerts"]
    /\ UNCHANGED <<GROQ_API_KEY, OPENROUTER_API_KEY, histories, questions,
                   turns, appends, staff, sessions>>

\* COALESCE(?, notes)
Coalesce(v, old) == IF v # JNull THEN v ELSE old

\* Faulty variant, for comparison: UPDATE ... WHERE id = ?
acknowledge_alert_any_status(alert_id, staff_name, notes) ==
    /\ \E now_str \in Times :
          alerts' = [i \in DOMAIN alerts |->
             IF alerts[i].id = alert_id
             THEN [alerts[i] EXCEPT !.status = "ack",
                                    !.acknowledged_at = now_str,
                                    !.acknowledged_by = staff_name,
                                    !.notes = Coalesce(notes, @)]
             ELSE alerts[i]]
    /\ probe' = [NoProbe EXCEPT !.op = "acknowledge_alert",
                                !.text = <<ToString(alert_id)>>]
    /\ UNCHANGED <<GROQ_API_KEY, OPENROUTER_API_KEY, histories, questions,
                   turns, appends, staff, sessions>>

\* Lines 363-378: UPDATE ... WHERE id = ? AND status = 'new'.  For an id
\* that has no row the update changes nothing and Alert(**dict(None))
\* raises after the commit.
acknowledge_alert(alert_id, staff_name, notes) ==
    /\ \E now_str \in Times :
          alerts' = [i \in DOMAIN alerts |->
             IF alerts[i].id = alert_id /\ alerts[i].status = "new"
             THEN [alerts[i] EXCEPT !.status = "ack",
                                    !.acknowledged_at = now_str,
                                    !.acknowledged_by = staff_name,
                                    !.notes = Coalesce(notes, @)]
             ELSE alerts[i]]
    /\ probe' = [NoProbe EXCEPT !.op = "acknowledge_alert",
                                !.text = <<ToString(alert_id)>>]
    /\ UNCHANGED <<GROQ_API_KEY, OPENROUTER_API_KEY, histories, questions,
                   turns, appends, staff, sessions>>

\* Lines 387-391: notes given and notes stored are joined by a newline
JoinedNotes(alert_id, notes) ==
    IF Truthy(notes)
       /\ \E i \in DOMAIN alerts :
             alerts[i].id = alert_id /\ Truthy(alerts[i].notes)
    THEN LET i == CHOOSE i \in DOMAIN alerts : alerts[i].id = alert_id
         IN JStr(alerts[i].notes.s \o <<"\n">> \o notes.s)
    ELSE notes

\* Lines 382-402: UPDATE ... WHERE id = ?, whatever the status of the row
resolve_alert(alert_id, staff_name, notes) ==
    /\ Len(JoinedNotes(alert_id, notes).s) <= MaxNoteLen
    /\ \E now_str \in Times :
          alerts' = [i \in DOMAIN alerts |->
             IF alerts[i].id = alert_id
             THEN [alerts[i] EXCEPT !.status = "resolved",
                                    !.resolved_at = now_str,
                                    !.resolved_by = staff_name,
                                    !.notes = Coalesce(
                                        JoinedNotes(alert_id, notes), @)]
             ELSE alerts[i]]
    /\ probe' = [NoProbe EXCEPT !.op = "alerts"]
    /\ UNCHANGED <<GROQ_API_KEY, OPENROUTER_API_KEY, histories, questions,
                   turns, appends, staff, sessions>>

InitAlerts ==
    /\ GROQ_API_KEY = ""
    /\ OPENROUTER_API_KEY = ""
    /\ histories = [r \in Rooms |-> <<>>]
    /\ questions = <<>>
    /\ alerts = <<>>
    /\ turns = [t \in 1..MaxTurns |-> NewTurn]
    /\ appends = 0
    /\ staff = SeededStaff
    /\ sessions = {}
    /\ probe = [NoProbe EXCEPT !.op = "alerts"]

NextAlerts ==
    \/ \E room_id \in Rooms :
          create_alert(room_id, "help", <<"Call button pressed">>, "urgent")
    \/ \E alert_id \in 1..(MaxAlerts + 1), staff_name \in StaffNames,
          notes \in NoteInputs :
          acknowledge_alert(alert_id, staff_name, notes)
    \/ \E alert_id \in 1..(MaxAlerts + 1), staff_name \in StaffNames,
          notes \in NoteInputs :
          resolve_alert(alert_id, staff_name, notes)

SpecAlerts == InitAlerts /\ [][NextAlerts]_vars

-----------------------------------------------------------------------------
(* The staff routes of main.py: login, logout, and the admin's create,    *)
(* edit and deactivate.  A request presents any cookie, with the csrf      *)
(* value drawn with it or with none.                                      *)

\* Rows of the staff table
MaxStaff == 2

\* Rows of the sessions table
MaxSessions == 2

Tokens == 1..MaxSessions

Passwords == {"admin1234", "pw"}

\* The requests leave every other table alone
StaffOnly ==
    UNCHANGED <<GROQ_API_KEY, OPENROUTER_API_KEY, histories, questions,
                alerts, turns, appends>>

\* secrets.token_urlsafe(32): a token no stored session has; which one is
\* immaterial, so the least free one stands for it
FreshToken ==
    CHOOSE k \in Tokens :
       /\ k \notin {s.token : s \in sessions}
       /\ \A j \in Tokens : j \notin {s.token : s \in sessions} => k <= j

\* Lines 561-616
staff_login(username, password) ==
    LET staff_record == get_staff_by_username(staff, Strip(username))
        token == FreshToken
    IN /\ Cardinality(sessions) < MaxSessions
       /\ IF \/ Strip(username) = <<>>
             \/ staff_record = NoStaff
             \/ staff_record.is_active = 0
             \/ ~verify_password(password, staff_record.password_hash)
          THEN UNCHANGED <<staff, sessions>>
          ELSE /\ sessions' = create_session(sessions, token, staff_record.id,
                                             staff_record.display_name)
               /\ staff' = [i \in DOMAIN staff |->
                               IF staff[i].id = staff_record.id
                               THEN [staff[i] EXCEPT !.last_login_at = NowIso]
                               ELSE staff[i]]
       /\ StaffOnly

\* Lines 619-628
staff_logout(session_token) ==
    /\ sessions' = IF session_token # 0
                   THEN delete_session(sessions, session_token)
                   ELSE sessions
    /\ UNCHANGED staff
    /\ StaffOnly

\* Faulty variant, for comparison: the role of the session is not tested
Admitted_any_role(current, csrf) ==
    /\ current # NoSession
    /\ csrf = current.csrf_token

\* What the admin routes test before they act: a session, the admin role,
\* the csrf token of the session
Admitted(current, csrf) ==
    /\ current # NoSession
    /\ current.role = "admin"
    /\ csrf = current.csrf_token

\* Lines 868-896
staff_manage_create(session_token, csrf, username, display_name, password, role) ==
    LET got == get_session(sessions, staff, session_token)
    IN /\ Len(staff) < MaxStaff
       /\ sessions' = got.sessions
       /\ staff' = IF /\ Admitted(got.session, csrf)
                      /\ role \in {"nurse", "admin", "supervisor"}
                      /\ get_staff_by_username(staff, username) = NoStaff
                   THEN create_staff(staff, username, display_name, password,
                                     role)
                   ELSE staff
       /\ StaffOnly

\* Lines 899-925
staff_manage_edit(session_token, csrf, staff_id, display_name, role, password) ==
    LET got == get_session(sessions, staff, session_token)
    IN /\ sessions' = got.sessions
       /\ staff' = IF /\ Admitted(got.session, csrf)
                      /\ role \in {"nurse", "admin", "supervisor"}
                   THEN update_staff(staff, staff_id, display_name, role,
                                     password)
                   ELSE staff
       /\ StaffOnly

\* Lines 928-949
staff_manage_deactivate(session_token, csrf, staff_id) ==
    LET got == get_session(sessions, staff, session_token)
    IN IF Admitted(got.session, csrf) /\ staff_id # got.session.staff_id
       THEN LET done == deactivate_staff(staff, got.sessions, staff_id)
            IN /\ staff' = done.staff
               /\ sessions' = done.sessions
               /\ StaffOnly
       ELSE /\ sessions' = got.sessions
            /\ UNCHANGED staff
            /\ StaffOnly

\* Hours between two requests
ClockStep == SESSION_EXPIRY_HOURS

\* Time passes: every stored session is ClockStep hours older
hours_pass ==
    /\ \E s \in sessions : ~Expired(s)
    /\ sessions' = {[s EXCEPT !.age = IF Expired(s) THEN @ ELSE @ + ClockStep] :
                      s \in sessions}
    /\ UNCHANGED staff
    /\ StaffOnly

InitStaff ==
    /\ GROQ_API_KEY = ""
    /\ OPENROUTER_API_KEY = ""
    /\ histories = [r \in Rooms |-> <<>>]
    /\ questions = <<>>
    /\ alerts = <<>>
    /\ turns = [t \in 1..MaxTurns |-> NewTurn]
    /\ appends = 0
    /\ staff = SeededStaff
    /\ sessions = {}
    /\ probe = [NoProbe EXCEPT !.op = "staff"]

\* The values of a form field: a request without a cookie or with a wrong
\* csrf value is refused before the form is used, so one value stands for
\* all
Field(session_token, csrf, values, one) ==
    IF session_token = 0 \/ csrf = 0 THEN {one} ELSE values

NextStaff ==
    \/ \E username \in Usernames, password \in Passwords :
          staff_login(username, password)
          /\ UNCHANGED probe
    \/ \E session_token \in {0} \cup Tokens : staff_logout(session_token)
          /\ UNCHANGED probe
    \/ \E session_token \in {0} \cup Tokens :
       \E csrf \in {0, CsrfOf(session_token)} :
       \E username \in Field(session_token, csrf,
                             {U_admin, <<" ", "K", "i", "m">>,
                              <<"l", "e", "e">>}, U_admin),
          role \in Field(session_token, csrf, {"nurse", "admin", "boss"},
                         "nurse") :
          staff_manage_create(session_token, csrf, username, "Kim", "pw", role)
          /\ UNCHANGED probe
    \/ \E session_token \in {0} \cup Tokens :
       \E csrf \in {0, CsrfOf(session_token)} :
       \E staff_id \in Field(session_token, csrf, 1..(MaxStaff + 1), 1),
          role \in Field(session_token, csrf, {"nurse", "admin", "boss"},
                         "nurse"),
          password \in Field(session_token, csrf, {"", "pw"}, "") :
          staff_manage_edit(session_token, csrf, staff_id,
                            get_staff_by_id(staff, staff_id).display_name,
                            role, password)
          /\ UNCHANGED probe
    \/ \E session_token \in {0} \cup Tokens :
       \E csrf \in {0, CsrfOf(session_token)} :
       \E staff_id \in Field(session_token, csrf, 1..(MaxStaff + 1), 1) :
          staff_manage_deactivate(session_token, csrf, staff_id)
          /\ UNCHANGED probe
    \/ hours_pass /\ UNCHANGED probe

SpecStaff == InitStaff /\ [][NextStaff]_vars

\* The same requests with a record of the last request to an admin route:
\* the route, the cookie, the csrf field and the account it names
Requested(route, session_token, csrf, staff_id) ==
    [NoProbe EXCEPT !.op = route,
                    !.text = <<session_token, csrf, staff_id>>]

NoRequest == [NoProbe EXCEPT !.op = "staff"]

NextManage ==
    \/ \E username \in Usernames, password \in Passwords :
          staff_login(username, password)
          /\ probe' = NoRequest
    \/ \E session_token \in {0} \cup Tokens : staff_logout(session_token)
          /\ probe' = NoRequest
    \/ \E session_token \in {0} \cup Tokens :
       \E csrf \in {0, CsrfOf(session_token)} :
       \E username \in Field(session_token, csrf,
                             {U_admin, <<" ", "K", "i", "m">>,
                              <<"l", "e", "e">>}, U_admin),
          role \in Field(session_token, csrf, {"nurse", "admin", "boss"},
                         "nurse") :
          staff_manage_create(session_token, csrf, username, "Kim", "pw", role)
          /\ probe' = Requested("create", session_token, csrf, 0)
    \/ \E session_token \in {0} \cup Tokens :
       \E csrf \in {0, CsrfOf(session_token)} :
       \E staff_id \in Field(session_token, csrf, 1..(MaxStaff + 1), 1),
          role \in Field(session_token, csrf, {"nurse", "admin", "boss"},
                         "nurse"),
          password \in Field(session_token, csrf, {"", "pw"}, "") :
          staff_manage_edit(session_token, csrf, staff_id,
                            get_staff_by_id(staff, staff_id).display_name,
                            role, password)
          /\ probe' = Requested("edit", session_token, csrf, staff_id)
    \/ \E session_token \in {0} \cup Tokens :
       \E csrf \in {0, CsrfOf(session_token)} :
       \E staff_id \in Field(session_token, csrf, 1..(MaxStaff + 1), 1) :
          staff_manage_deactivate(session_token, csrf, staff_id)
          /\ probe' = Requested("deactivate", session_token, csrf, staff_id)
    \/ hours_pass /\ probe' = NoRequest

SpecManage == InitStaff /\ [][NextManage]_vars

-----------------------------------------------------------------------------
(* Claims *)

Tiers == {Sev("emergency"), Sev("urgent"), Sev("routine"), Sev("informational")}

\* A request for a known room with a message that is not blank
Handled(t) == turns[t].room_id \in Rooms /\ turns[t].user_message # <<>>

\* C1: every chat turn on a known room, under every combination of provider
\* outcomes on its two branches, completes with a non-empty reply and never
\* ends in an unhandled failure.
C1_TurnAlwaysReplies ==
    \A t \in TurnIds :
        turns[t].room_id \in Rooms =>
            /\ turns[t].pc # "failed"
            /\ turns[t].pc = "returned" => turns[t].result.response # <<>>

\* C2: for every non-empty turn an alert is created if and only if its
\* classification has is_help_request = true, confidence >= 0.5 and a
\* severity other than "informational".
C2_AlertIffRule ==
    \A t \in TurnIds :
        Handled(t) /\ turns[t].pc \in {"returned", "failed"} =>
            LET c == turns[t].cls.classification
                created ==
                    /\ turns[t].result.alert_created
                    /\ \E i \in DOMAIN alerts : alerts[i].id = turns[t].alert_id
            IN created <=> /\ c.is_help_request = TRUE
                           /\ c.confidence >= 50
                           /\ c.severity # Sev("informational")

\* C3: every ClassificationResult that classify returns, from the model tier
\* or from the keyword tier, has a confidence in [0.0, 1.0] and a severity
\* that is one of emergency, urgent, routine, informational.
C3_ResultInRange ==
    \A t \in TurnIds :
        turns[t].cls.pc = "done" =>
            /\ turns[t].cls.classification.confidence \in 0..100
            /\ turns[t].cls.classification.severity \in Tiers

\* C4: in every reachable state the log that _get_history returns for a room
\* holds at most 20 turns, after any sequence of appends to any rooms.
C4_HistoryBounded ==
    \A room_id \in Rooms : Len(_get_history(histories, room_id)) <= 20

\* A full log has been appended to and its oldest entry is gone
C4_Witness ==
    /\ probe.op = "_add_to_history"
    /\ Len(histories[probe.room_id]) = 20
    /\ histories[probe.room_id][1] = WarmLog(20)[2]

\* C5: an append to a log of 20 turns removes exactly the oldest turn, the
\* new turn becomes the last one and the other 19 keep their content and
\* order; an append to a shorter log removes nothing.
C5_FifoTruncation ==
    [][appends' = appends + 1 =>
          LET room_id == probe'.room_id
              old     == histories[room_id]
              new     == histories'[room_id]
          IN IF Len(old) = 20
             THEN /\ Len(new) = 20
                  /\ new[20] = probe'.entry
                  /\ \A i \in 1..19 : new[i] = old[i + 1]
             ELSE /\ Len(new) = Len(old) + 1
                  /\ new[Len(new)] = probe'.entry
                  /\ \A i \in 1..Len(old) : new[i] = old[i]]_vars

\* Two appends to a full log: the two oldest entries are gone, the two new
\* ones are last, in the order of their appends
C5_Witness ==
    /\ probe.op = "_add_to_history"
    /\ appends >= 2
    /\ Len(histories[probe.room_id]) = 20
    /\ histories[probe.room_id][1] = WarmLog(20)[3]
    /\ histories[probe.room_id][18] = WarmLog(20)[20]
    /\ histories[probe.room_id][20] = probe.entry

ChainIndex(provider) == CHOOSE i \in 1..Len(Providers) : Providers[i] = provider

\* C6: within one _call_llm call the providers are attempted in chain order,
\* each at most once, and the attempts stop at the first provider that
\* yields non-empty text: once Groq has answered with text OpenRouter is
\* not asked, and no provider is asked again after a failed attempt.
C6_FirstSuccess ==
    LET call == probe.call
        log  == call.log
    IN /\ \A i, j \in DOMAIN log :
             i < j => ChainIndex(log[i].provider) < ChainIndex(log[j].provider)
       /\ \A i \in DOMAIN log :
             log[i].kind = "ok" => i = Len(log) /\ call.pc = "returned"
       /\ InFlight(call) =>
             \A i \in DOMAIN log : ChainIndex(log[i].provider) < ChainIndex(call.pc)

\* Groq answered with text while OpenRouter was configured: one request
C6_Witness ==
    /\ probe.op = "_call_llm"
    /\ probe.call.pc = "returned"
    /\ OPENROUTER_API_KEY # ""
    /\ Len(probe.call.log) = 1
    /\ probe.call.log[1].provider = "groq"

\* A response that is a failed attempt, as section 4.1 lists them
FailedAttempt(resp) ==
    \/ resp.error \in {"network_error", "timeout"}
    \/ resp.status \notin 200..299
    \/ ~resp.has_content
    \/ Strip(resp.content) = <<>>

KeyOf(provider) ==
    IF provider = "groq" THEN GROQ_API_KEY ELSE OPENROUTER_API_KEY

\* C7: a _call_llm call raises if and only if every provider of the chain
\* fails (no credential, network error or timeout, non-success status, body
\* without the completion field, text empty after trimming); when a provider
\* yields non-empty text the call returns that text and does not raise.
C7_RaisesIffAllFail ==
    LET call == probe.call
        log  == call.log
        Fails(p) ==
            \/ KeyOf(p) = ""
            \/ \E i \in DOMAIN log :
                  log[i].provider = p /\ FailedAttempt(log[i].resp)
        Yields(i) == ~FailedAttempt(log[i].resp)
    IN call.pc \in {"returned", "raised"} =>
          /\ call.pc = "raised" <=> \A i \in 1..Len(Providers) : Fails(Providers[i])
          /\ \A i \in DOMAIN log :
                Yields(i) => /\ call.pc = "returned"
                             /\ call.text = Strip(log[i].resp.content)
                             /\ call.text # <<>>
          /\ call.pc = "returned" => \E i \in DOMAIN log : Yields(i)

\* Both providers were asked and both failed, one by a timeout and one by an
\* empty text: the call raised
C7_Witness ==
    /\ probe.call.pc = "raised"
    /\ Len(probe.call.log) = 2
    /\ probe.call.log[1].resp.error = "timeout"
    /\ probe.call.log[2].resp.content = <<" ", "\n">>

\* The model tier of a finished classification failed: no provider gave
\* text, or the text is not a JSON object, or a field cannot be coerced
ModelTierFailed(t) ==
    \/ turns[t].cls.raw = <<>>
    \/ ~ParsedOf[turns[t].cls.raw].ok

\* C8: whenever the model tier of classify fails (providers exhausted, text
\* that is not parseable as JSON, a field that cannot be coerced), classify
\* returns exactly the keyword classifier's result for the same message.
C8_FallbackIsKeyword ==
    \A t \in TurnIds :
        turns[t].cls.pc = "done" /\ ModelTierFailed(t) =>
            turns[t].cls.classification = _keyword_classify(turns[t].user_message)

\* A provider answered with a confidence that float() rejects, and the
\* message "I think I fell and my hip hurts" was classified by its keywords
C8_Witness ==
    \E t \in TurnIds :
        /\ turns[t].cls.pc = "done"
        /\ turns[t].cls.raw = RawBadConfidence
        /\ turns[t].user_message = MsgThinkFell
        /\ turns[t].cls.classification.severity = Sev("emergency")
        /\ turns[t].cls.classification.confidence = 80

Verdict(result) == <<result.is_help_request, result.severity, result.confidence>>

HasWordOf(ws, text) == \E i \in DOMAIN ws : Contains(ws[i], Lower(text))

\* C9: the keyword classifier checks its lists in the order emergency,
\* urgent, help and returns the tier of the first list with a word that is a
\* substring of the lower-cased message: (true, emergency, 0.8), else
\* (true, urgent, 0.7), else (true, routine, 0.6).
C9_KeywordOrder ==
    probe.op = "_keyword_classify" =>
        /\ HasWordOf(emergency_words, probe.text) =>
              Verdict(probe.result) = <<TRUE, Sev("emergency"), 80>>
        /\ ~HasWordOf(emergency_words, probe.text)
           /\ HasWordOf(urgent_words, probe.text) =>
              Verdict(probe.result) = <<TRUE, Sev("urgent"), 70>>
        /\ ~HasWordOf(emergency_words, probe.text)
           /\ ~HasWordOf(urgent_words, probe.text)
           /\ HasWordOf(help_words, probe.text) =>
              Verdict(probe.result) = <<TRUE, Sev("routine"), 60>>
        /\ probe.text = <<"f", "e", "l", "l", "o", "w">> =>
              probe.result.severity = Sev("emergency")
        /\ probe.text = <<"P", "A", "I", "N">> =>
              probe.result.severity = Sev("urgent")
        /\ probe.text = <<"H", "e", "l", "p">> =>
              probe.result.severity = Sev("routine")

\* "PAIN I fell": an urgent word in capitals before an emergency word
C9_Witness ==
    /\ probe.op = "_keyword_classify"
    /\ probe.text = <<"P", "A", "I", "N", " ", "I", " ", "f", "e", "l", "l">>
    /\ Verdict(probe.result) = <<TRUE, Sev("emergency"), 80>>

\* C10: the keyword classifier is total and never fails: every message gets
\* a result, and a message with no word of the three lists gets
\* is_help_request = false, severity informational, confidence 0.9.
C10_KeywordTotal ==
    /\ probe.op = "pending" => ENABLED keyword_classify
    /\ probe.op = "_keyword_classify" =>
          /\ probe.result.is_help_request \in BOOLEAN
          /\ probe.result.severity \in Tiers
          /\ probe.result.confidence \in {60, 70, 80, 90}
          /\ ~HasWordOf(emergency_words, probe.text)
             /\ ~HasWordOf(urgent_words, probe.text)
             /\ ~HasWordOf(help_words, probe.text) =>
                Verdict(probe.result) = <<FALSE, Sev("informational"), 90>>

\* "hello What time is it?": no listed word
C10_Witness ==
    /\ probe.op = "_keyword_classify"
    /\ probe.text = <<"h", "e", "l", "l", "o", " ", "W", "h", "a", "t", " ", "t", "i", "m", "e", " ", "i", "s", " ", "i", "t", "?">>
    /\ Verdict(probe.result) = <<FALSE, Sev("informational"), 90>>

-----------------------------------------------------------------------------
(* The turn when the providers are unavailable *)

\* The tier of the first word list with a word in the message, computed from
\* the lists alone
FirstTier ==
    [m \in Trimmed |->
        IF HasWordOf(emergency_words, m) THEN "emergency"
        ELSE IF HasWordOf(urgent_words, m) THEN "urgent"
        ELSE IF HasWordOf(help_words, m) THEN "routine"
        ELSE "none"]

\* The classification call of turn t ended without text from any provider
ProvidersUnavailable(t) ==
    /\ turns[t].cls.pc = "done"
    /\ turns[t].cls.raw = <<>>
    /\ \A i \in DOMAIN turns[t].cls.attempts : ~turns[t].cls.attempts[i].ok

AlertOf(t) == alerts[turns[t].alert_id]

\* C11: when both providers are unavailable for a turn, an alert is created
\* if and only if the message contains a word of one of the three keyword
\* lists; its severity is the tier of the first matching list and its message
\* contains the original text.  "I think I fell and my hip hurts" gives an
\* emergency alert, "What time is it?" gives none.
C11_KeywordEscalation ==
    \A t \in TurnIds :
        Handled(t) /\ ProvidersUnavailable(t)
        /\ turns[t].pc \in {"returned", "failed"} =>
            LET m == turns[t].user_message IN
            /\ turns[t].pc = "returned"
            /\ turns[t].result.alert_created <=> FirstTier[m] # "none"
            /\ turns[t].alert_id # 0 <=> FirstTier[m] # "none"
            /\ turns[t].result.alert_created =>
                  /\ turns[t].alert_id \in DOMAIN alerts
                  /\ AlertOf(t).severity = Sev(FirstTier[m])
                  /\ turns[t].result.severity = Sev(FirstTier[m])
                  /\ Contains(m, AlertOf(t).message)
            /\ m = MsgThinkFell => /\ turns[t].result.alert_created
                                   /\ AlertOf(t).severity = Sev("emergency")
            /\ m = MsgTime => ~turns[t].result.alert_created

\* Both keys are set, both requests of the classification call failed, and
\* "I think I fell and my hip hurts" raised an emergency alert
C11_Witness ==
    \E t \in TurnIds :
        /\ turns[t].pc = "returned"
        /\ turns[t].user_message = MsgThinkFell
        /\ ProvidersUnavailable(t)
        /\ Len(turns[t].cls.attempts) = 2
        /\ turns[t].result.alert_created
        /\ AlertOf(t).severity = Sev("emergency")
        /\ AlertOf(t).message =
              <<"[", "emergency", "] ">> \o MsgThinkFell

-----------------------------------------------------------------------------
(* The empty message *)

\* Turn t is on a known room and its message was empty after trimming
EmptyTurn(t) ==
    /\ turns[t].pc # "new"
    /\ turns[t].room_id \in Rooms
    /\ turns[t].user_message = <<>>

\* C12: a turn whose message is empty after trimming is rejected on a fast
\* path: no provider is invoked, the classifier is not run, the fixed
\* prompt-for-repeat reply is returned and no alert is created; the step that
\* accepts it writes nothing to the log, the question log or the alerts.
C12_EmptyFastPath ==
    /\ [](\A t \in TurnIds :
            EmptyTurn(t) =>
                /\ turns[t].pc = "returned"
                /\ turns[t].chat = ChatIdle
                /\ turns[t].cls = ClassifyIdle
                /\ turns[t].alert_id = 0
                /\ turns[t].result =
                      ChatResponse(200, DidntCatchThat, FALSE, JNull))
    /\ [][\A t \in TurnIds :
            turns[t].pc = "new" /\ EmptyTurn(t)' =>
                UNCHANGED <<histories, questions, alerts>>]_vars

\* "  " was sent to room 102 and got the prompt to repeat
C12_Witness ==
    \E t \in TurnIds :
        /\ EmptyTurn(t)
        /\ turns[t].pc = "returned"
        /\ turns[t].room_id = "102"
        /\ turns[t].result.response = DidntCatchThat
        /\ histories["102"] = <<>>

-----------------------------------------------------------------------------
(* The join of the two branches *)

BothDone(t) == turns[t].chat.pc = "done" /\ turns[t].cls.pc = "done"

\* The step in which the handler of turn t goes past its gather
Finalizes(t) ==
    /\ turns[t].pc = "running"
    /\ turns'[t].pc \in {"returned", "failed"}

\* C13: the turn is a join, not a race: the question-log write, the
\* escalation decision, the alert write and the return of the turn happen
\* only after both the chat branch and the classification branch of that
\* turn have completed, whichever branch finishes first.
C13_JoinNotRace ==
    [][/\ \A t \in TurnIds :
            turns[t].pc = "running" /\ turns'[t].pc # "running" =>
                /\ BothDone(t)
                /\ Finalizes(t)
                /\ turns'[t].chat = turns[t].chat
                /\ turns'[t].cls = turns[t].cls
                /\ turns'[t].result.alert_created =>
                      EscalationRule(turns[t].cls.classification)
       /\ questions' # questions \/ alerts' # alerts =>
            \E t \in TurnIds :
                /\ Finalizes(t)
                /\ BothDone(t)
                /\ questions' = Append(questions,
                       QuestionRow(turns[t].room_id, turns[t].user_message,
                                   turns[t].chat.response))
                /\ alerts' # alerts =>
                      /\ EscalationRule(turns[t].cls.classification)
                      /\ Len(alerts') = Len(alerts) + 1
      ]_vars

\* The classification branch finished first: the chat branch still waits
\* for its provider and nothing of the turn has been written
C13_Witness ==
    \E t \in TurnIds :
        /\ turns[t].pc = "running"
        /\ turns[t].cls.pc = "done"
        /\ turns[t].cls.tier = "model"
        /\ EscalationRule(turns[t].cls.classification)
        /\ turns[t].chat.pc = "waiting"
        /\ questions = <<>>
        /\ alerts = <<>>

-----------------------------------------------------------------------------
(* The independence of the two branches *)

\* C14: the two branches of a turn fail independently: a provider failure, a
\* timeout or the exhaustion of the chain on one branch never aborts, cancels
\* or changes the result of the sibling branch; the reply depends on the chat
\* call alone and the classification on the classification call alone.
C14_BranchesIndependent ==
    /\ [](\A t \in TurnIds :
            /\ turns[t].chat.pc = "done" =>
                  \/ /\ turns[t].chat.served \in {"groq", "openrouter"}
                     /\ turns[t].chat.response \in {Strip(c) : c \in ChatContents}
                  \/ /\ turns[t].chat.served = "canned"
                     /\ turns[t].chat.response =
                           CannedOf[turns[t].room_id][turns[t].user_message]
            /\ turns[t].cls.pc = "done" =>
                  \/ /\ turns[t].cls.tier = "model"
                     /\ turns[t].cls.classification =
                           ParsedOf[turns[t].cls.raw].result
                  \/ /\ turns[t].cls.tier = "keyword"
                     /\ turns[t].cls.classification =
                           KeywordOf[turns[t].user_message])
    /\ [][\A t \in TurnIds :
            turns[t].pc = "running" /\ turns'[t].pc = "running" =>
                /\ turns'[t].chat # turns[t].chat =>
                      turns'[t].cls = turns[t].cls
                /\ turns'[t].cls # turns[t].cls =>
                      turns'[t].chat = turns[t].chat
                /\ turns[t].chat.pc = "done" => turns'[t].chat = turns[t].chat
                /\ turns[t].cls.pc = "done" => turns'[t].cls = turns[t].cls
      ]_vars

\* Both combinations at once, in two overlapping turns: one has the canned
\* reply, after both requests of its chat call failed, and a provider's
\* classification; the other has a provider's reply while both requests of
\* its classification call failed and the keywords classified it
C14_Witness ==
    \E t, u \in TurnIds :
        /\ t # u
        /\ BothDone(t) /\ BothDone(u)
        /\ turns[t].chat.served = "canned"
        /\ Len(turns[t].chat.attempts) = 2
        /\ turns[t].cls.tier = "model"
        /\ turns[u].chat.served = "groq"
        /\ ProvidersUnavailable(u)
        /\ Len(turns[u].cls.attempts) = 2
        /\ turns[u].cls.tier = "keyword"

-----------------------------------------------------------------------------
(* The context of the chat call *)

UserEntry(t) == [role |-> "user", content |-> turns[t].user_message]

\* C15: in the chat branch the turn's own user message is appended to the
\* room's log before the provider call is made: the context sent to the
\* provider is the system prompt followed by the room's log, whose last entry
\* is this turn's user message, under any interleaving with other turns, also
\* of the same room.
C15_OwnMessageInContext ==
    /\ [](\A t \in TurnIds :
            turns[t].chat.pc = "waiting" =>
                LET context == turns[t].chat.context IN
                /\ Len(context) >= 2
                /\ context[1] = SystemMessage[turns[t].room_id]
                /\ context[Len(context)] = UserEntry(t))
    /\ [][\A t \in TurnIds :
            /\ turns[t].chat.pc = "ready" /\ turns'[t].chat.pc = "waiting" =>
                  LET room_id == turns[t].room_id
                      log == histories[room_id] \o <<UserEntry(t)>>
                  IN /\ histories'[room_id] = log
                     /\ turns'[t].chat.context =
                           <<SystemMessage[room_id]>> \o log
            /\ turns[t].chat.pc = "waiting" /\ turns'[t].chat.pc = "waiting" =>
                  turns'[t].chat.context = turns[t].chat.context
      ]_vars

\* Two turns of room 101 overlap: the second one waits for its provider
\* with a context that ends with the first turn's message and then its own,
\* while the first turn still waits for its reply
C15_Witness ==
    \E t, u \in TurnIds :
        /\ t # u
        /\ turns[t].room_id = "101" /\ turns[u].room_id = "101"
        /\ turns[t].chat.pc = "waiting" /\ turns[u].chat.pc = "waiting"
        /\ turns[t].user_message = MsgTime
        /\ turns[u].user_message = MsgThinkFell
        /\ turns[u].chat.context =
              <<SystemMessage["101"], UserEntry(t), UserEntry(u)>>

-----------------------------------------------------------------------------
(* The question log *)

\* C16: every non-empty turn writes exactly one entry to the question log,
\* holding the question text and the final reply text, whether or not an
\* alert is created and whichever tier served the reply and the
\* classification.
C16_OneQuestionPerTurn ==
    [][/\ \A t \in TurnIds :
            Handled(t) /\ Finalizes(t) =>
                questions' = Append(questions,
                    QuestionRow(turns[t].room_id, turns[t].user_message,
                                turns[t].chat.response))
       /\ questions' # questions =>
            /\ Len(questions') = Len(questions) + 1
            /\ \E t \in TurnIds : Handled(t) /\ Finalizes(t)
      ]_vars

-----------------------------------------------------------------------------
(* One classification and at most one alert per turn *)

Finalized(t) == turns[t].pc \in {"returned", "failed", "gone"}

\* C17: every non-empty turn produces exactly one ClassificationResult and
\* creates at most one alert; after any sequence of turns the number of
\* alerts created by the pipeline never exceeds the number of non-empty
\* turns handled (each of which is finalized once, and each question row is
\* written by one of them).
C17_OneClassificationOneAlert ==
    /\ [](Len(alerts) <= Len(questions))
    /\ [](\A t \in TurnIds :
            Handled(t) /\ turns[t].pc \in {"returned", "failed"} =>
                /\ turns[t].cls.pc = "done"
                /\ turns[t].cls.tier \in {"model", "keyword"})
    /\ [][/\ \A t \in TurnIds :
              /\ Finalized(t) => Finalized(t)'
              /\ turns[t].cls.pc = "done" /\ ~Finalized(t)' =>
                    turns'[t].cls = turns[t].cls
              /\ turns[t].cls.pc # "done" /\ turns'[t].cls.pc = "done" =>
                    /\ turns[t].pc = "running"
                    /\ turns[t].cls.tier = "none"
         /\ alerts' # alerts =>
              /\ Len(alerts') = Len(alerts) + 1
              /\ SubSeq(alerts', 1, Len(alerts)) = alerts
              /\ Cardinality({t \in TurnIds : Handled(t) /\ Finalizes(t)}) = 1
      ]_vars

\* Two overlapping turns were handled and each of them raised its alert
C17_Witness ==
    /\ Len(alerts) = 2
    /\ Len(questions) = 2
    /\ alerts[1].id # alerts[2].id
    /\ \E t \in TurnIds : turns[t].pc = "returned" /\ turns[t].alert_id = 2
    /\ \E t \in TurnIds : turns[t].pc = "returned" /\ turns[t].alert_id = 1

-----------------------------------------------------------------------------
(* The alert row *)

HelpMe == <<"H", "E", "L", "P", " ", "m", "e">>

\* C18: every alert created by the escalation rule has type "help", status
\* "new", the room and resident of the turn, a severity equal to the
\* classification's severity, and a message made of the severity tag
\* followed by the user text as the turn holds it (trimmed at line 487, not
\* lower-cased or otherwise changed).  The severity column is a text column:
\* a severity that is no text is compared as the text it is stored as.
C18_AlertFields ==
    [][\A t \in TurnIds :
          Handled(t) /\ Finalizes(t) /\ turns'[t].result.alert_created =>
              LET a == alerts'[Len(alerts')]
                  c == turns[t].cls.classification
              IN /\ alerts' = Append(alerts, a)
                 /\ turns'[t].alert_id = a.id
                 /\ a.type = "help"
                 /\ a.status = "new"
                 /\ a.room_id = turns[t].room_id
                 /\ a.resident_name = get_rooms[turns[t].room_id].resident_name
                 /\ a.room_id = "101" => a.resident_name = "Margaret"
                 /\ a.room_id = "102" => a.resident_name = "Harold"
                 /\ c.severity.t = "str" => a.severity = c.severity
                 /\ a.severity = JStr(ToStr(c.severity))
                 /\ a.severity = turns'[t].result.severity
                 /\ a.message = <<"[">> \o a.severity.s \o <<"] ">>
                                \o turns[t].user_message
      ]_vars

\* " HELP me " in room 102, classified "critical" by a provider: the alert
\* reads "[critical] HELP me" and carries the severity "critical"
C18_Witness ==
    \E t \in TurnIds :
        /\ turns[t].pc = "returned"
        /\ turns[t].room_id = "102"
        /\ turns[t].user_message = HelpMe
        /\ turns[t].cls.raw = RawOutOfRange
        /\ turns[t].result.alert_created
        /\ AlertOf(t).resident_name = "Harold"
        /\ AlertOf(t).severity = Sev("critical")
        /\ AlertOf(t).message = <<"[", "critical", "] ">> \o HelpMe

-----------------------------------------------------------------------------
(* The three tiers of the reply *)

\* Provider p gave text to the chat call of turn t
GaveText(t, p) ==
    \E i \in DOMAIN turns[t].chat.attempts :
        /\ turns[t].chat.attempts[i].provider = p
        /\ turns[t].chat.attempts[i].ok

\* Provider p failed for the chat call of turn t: it has no key, or the
\* request to it gave no text
FailedFor(t, p) ==
    \/ KeyOf(p) = ""
    \/ \E i \in DOMAIN turns[t].chat.attempts :
          /\ turns[t].chat.attempts[i].provider = p
          /\ ~turns[t].chat.attempts[i].ok

TextOf(t, p) ==
    LET i == CHOOSE i \in DOMAIN turns[t].chat.attempts :
                 turns[t].chat.attempts[i].provider = p
    IN turns[t].chat.attempts[i].text

\* C19: the reply of a turn degrades through three tiers in order: the
\* primary provider's text when the primary attempt succeeds, otherwise the
\* secondary provider's text when the secondary attempt succeeds, otherwise
\* the canned responder's text; the canned text is used only when both
\* providers failed for the chat branch, and the reply is never anything
\* else (no raw provider error).
C19_ThreeTiers ==
    \A t \in TurnIds :
        turns[t].chat.pc = "done" =>
            LET reply  == turns[t].chat.response
                canned == CannedOf[turns[t].room_id][turns[t].user_message]
            IN /\ reply # <<>>
               /\ GaveText(t, "groq") =>
                     /\ turns[t].chat.served = "groq"
                     /\ reply = TextOf(t, "groq")
                     /\ ~\E i \in DOMAIN turns[t].chat.attempts :
                           turns[t].chat.attempts[i].provider = "openrouter"
               /\ ~GaveText(t, "groq") /\ GaveText(t, "openrouter") =>
                     /\ turns[t].chat.served = "openrouter"
                     /\ reply = TextOf(t, "openrouter")
                     /\ FailedFor(t, "groq")
               /\ ~GaveText(t, "groq") /\ ~GaveText(t, "openrouter") =>
                     /\ turns[t].chat.served = "canned"
                     /\ reply = canned
               /\ turns[t].chat.served = "canned" =>
                     FailedFor(t, "groq") /\ FailedFor(t, "openrouter")
               /\ reply \in {Strip(c) : c \in ChatContents} \cup {canned}
               /\ turns[t].pc = "returned" => turns[t].result.response = reply

\* The request to Groq failed and OpenRouter's text is the reply of the turn
C19_Witness ==
    \E t \in TurnIds :
        /\ turns[t].pc = "returned"
        /\ Len(turns[t].chat.attempts) = 2
        /\ FailedFor(t, "groq") /\ GROQ_API_KEY # ""
        /\ GaveText(t, "openrouter")
        /\ turns[t].result.response = <<"Of course, dear. Lunch is at noon.">>

-----------------------------------------------------------------------------
(* Providers without a credential *)

\* The providers that the call of a branch has posted to, or is posting to
AskedBy(branch) ==
    {branch.attempts[i].provider : i \in DOMAIN branch.attempts}
    \cup {branch.call.log[i].provider : i \in DOMAIN branch.call.log}
    \cup (IF InFlight(branch.call) THEN {branch.call.pc} ELSE {})

\* C20: a provider whose credential is absent is disabled, not an error: no
\* request is made to it and the chain moves on to the next provider; with
\* both credentials absent no request is made at all and the turn still
\* completes with the canned reply and the keyword classification.
C20_AbsentCredentialSkipped ==
    \A t \in TurnIds :
        LET asked == AskedBy(turns[t].chat) \cup AskedBy(turns[t].cls) IN
        /\ \A p \in asked : KeyOf(p) # ""
        /\ GROQ_API_KEY = "" /\ OPENROUTER_API_KEY # "" =>
              /\ turns[t].chat.pc \in {"waiting", "done"} =>
                    AskedBy(turns[t].chat) = {"openrouter"}
              /\ turns[t].cls.pc \in {"waiting", "done"} =>
                    AskedBy(turns[t].cls) = {"openrouter"}
        /\ GROQ_API_KEY = "" /\ OPENROUTER_API_KEY = "" =>
              /\ asked = {}
              /\ turns[t].chat.pc \in {"idle", "ready", "done"}
              /\ turns[t].cls.pc \in {"idle", "ready", "done"}
              /\ turns[t].pc # "failed"
              /\ turns[t].chat.pc = "done" =>
                    /\ turns[t].chat.served = "canned"
                    /\ turns[t].chat.response =
                          CannedOf[turns[t].room_id][turns[t].user_message]
              /\ turns[t].cls.pc = "done" =>
                    /\ turns[t].cls.tier = "keyword"
                    /\ turns[t].cls.classification =
                          KeywordOf[turns[t].user_message]
              /\ Handled(t) /\ turns[t].pc = "returned" =>
                    /\ turns[t].chat.pc = "done"
                    /\ turns[t].cls.pc = "done"
                    /\ turns[t].result.response = turns[t].chat.response
                    /\ turns[t].result.alert_created =
                          EscalationRule(KeywordOf[turns[t].user_message])

\* No key is set: "I think I fell and my hip hurts" got the canned reply of
\* the distress words and an emergency alert, with no request made
C20_Witness ==
    \E t \in TurnIds :
        /\ GROQ_API_KEY = "" /\ OPENROUTER_API_KEY = ""
        /\ turns[t].pc = "returned"
        /\ turns[t].user_message = MsgThinkFell
        /\ turns[t].chat.attempts = <<>> /\ turns[t].cls.attempts = <<>>
        /\ turns[t].result.response = CannedDistress
        /\ turns[t].result.severity = Sev("emergency")

-----------------------------------------------------------------------------
(* Claims on the parse of the provider's classification *)

\* The object classify reads its fields from: the first span between braces,
\* or the whole text when there is none
ObjectOf(raw) ==
    LET match == re_search(raw)
    IN json_loads(IF match.found THEN match.group ELSE raw)

ReadsObject(raw) == ObjectOf(raw).ok /\ ObjectOf(raw).isdict

\* A field that is present with another type than its own
InvalidType(d) ==
    \/ "is_help_request" \in DOMAIN d /\ d["is_help_request"].t # "bool"
    \/ "severity" \in DOMAIN d /\ d["severity"].t # "str"
    \/ "confidence" \in DOMAIN d /\ d["confidence"].t # "num"
    \/ "explanation" \in DOMAIN d /\ d["explanation"].t # "str"

Classified == probe.op = "classify" /\ probe.call.pc = "returned"

\* C21: when the object of the provider's answer carries a field of an
\* invalid type, the parse fails and classify returns the result of the
\* keyword classifier, not a result built from that object
C21_InvalidTypeFailsParse ==
    ( /\ Classified
      /\ ReadsObject(probe.call.text)
      /\ InvalidType(ObjectOf(probe.call.text).dict) )
    => /\ probe.tier = "keyword"
       /\ probe.result = KeywordOf[probe.text]

\* float() takes the confidence of the object, or the object has none
ConfidenceCoercible(d) ==
    "confidence" \in DOMAIN d => ToFloat(d["confidence"]).ok

\* C22: when the provider's object parses but lacks fields, classify returns
\* a model result where each missing field has its default (false,
\* informational, 0.5, empty) and each present field the provider's value
C22_MissingFieldsDefault ==
    ( /\ Classified
      /\ ReadsObject(probe.call.text)
      /\ ConfidenceCoercible(ObjectOf(probe.call.text).dict) )
    => LET d == ObjectOf(probe.call.text).dict
           r == probe.result
       IN /\ probe.tier = "model"
          /\ IF "is_help_request" \in DOMAIN d
             THEN d["is_help_request"].t = "bool"
                     => r.is_help_request = d["is_help_request"].b
             ELSE r.is_help_request = FALSE
          /\ IF "severity" \in DOMAIN d
             THEN r.severity = d["severity"]
             ELSE r.severity = Sev("informational")
          /\ IF "confidence" \in DOMAIN d
             THEN d["confidence"].t = "num" => r.confidence = d["confidence"].n
             ELSE r.confidence = 50
          /\ IF "explanation" \in DOMAIN d
             THEN r.explanation = d["explanation"]
             ELSE r.explanation = JStr(<<>>)

\* An answer with the severity alone
C22_Witness ==
    /\ Classified
    /\ probe.call.text = ParseAnswers.only_severity
    /\ probe.tier = "model"
    /\ probe.result = ClassificationResult(FALSE, Sev("routine"), 50,
                                           JStr(<<>>))

-----------------------------------------------------------------------------
(* Claims on the canned responder *)

\* The categories in the order they are checked, each with its phrases
CannedCategories ==
    << [name |-> "location", phrases |-> {W_where_am_i, W_what_is_this_place}],
       [name |-> "time", phrases |-> {W_time}],
       [name |-> "date", phrases |-> {W_day, W_date}],
       [name |-> "meal",
        phrases |-> {W_breakfast, W_lunch, W_dinner, W_meal}],
       [name |-> "distress",
        phrases |-> {distress_words[i] : i \in DOMAIN distress_words}] >>

InCategory(i, text) ==
    \E w \in CannedCategories[i].phrases : Contains(w, Lower(text))

\* The first category that matches, "generic" when none does
FirstCategory(text) ==
    IF \E i \in DOMAIN CannedCategories : InCategory(i, text)
    THEN CannedCategories[
             CHOOSE i \in DOMAIN CannedCategories :
                /\ InCategory(i, text)
                /\ \A j \in 1..(i - 1) : ~InCategory(j, text)].name
    ELSE "generic"

Mentions(reply, piece) == \E i \in DOMAIN reply : reply[i] = piece

SentenceOf(category, reply, room_id) ==
    CASE category = "location" ->
            /\ Mentions(reply, room_id)
            /\ Mentions(reply, get_rooms[room_id].resident_name)
            /\ Mentions(reply, ". You're safe here.")
      [] category = "time" -> reply = <<"It's ", NowTime, " right now.">>
      [] category = "date" -> reply = <<"Today is ", NowDate, ".">>
      [] category = "meal" -> Mentions(reply, "Breakfast is at 8:00 AM, lunch at 12:00 PM, and dinner at 5:30 PM.")
      [] category = "distress" -> reply = CannedDistress
      [] OTHER -> reply = CannedGeneric

\* C23: the canned responder returns the sentence of the first category, in
\* the order location, time, date, meal, distress, that matches the
\* lower-cased text, and the generic sentence when none matches; a message
\* with a distress keyword and no informational phrase gets the distress
\* sentence, a message with "time" (and no location phrase before it in the
\* order) a reply with the time
C23_CannedOrder ==
    probe.op = "_canned_response"
    => /\ SentenceOf(FirstCategory(probe.text), probe.entry.content,
                     probe.room_id)
       /\ ( /\ AnyIn(distress_words, Lower(probe.text))
            /\ \A i \in 1..4 : ~InCategory(i, probe.text) )
          => probe.entry.content = CannedDistress
       /\ ( /\ Contains(W_time, Lower(probe.text))
            /\ ~InCategory(1, probe.text) )
          => Mentions(probe.entry.content, NowTime)

\* A message with a time phrase and a distress keyword is answered with the
\* time
C23_Witness ==
    /\ probe.op = "_canned_response"
    /\ Contains(W_time, Lower(probe.text))
    /\ AnyIn(distress_words, Lower(probe.text))
    /\ probe.entry.content = <<"It's ", NowTime, " right now.">>

-----------------------------------------------------------------------------
(* Claims on overlapping requests of one room *)

\* C24: when two turns of the same room are processed concurrently the store
\* gives per-room mutual exclusion: each append takes effect whole, and the
\* two appends of one turn (its user turn, then its assistant turn) are not
\* interleaved with the appends of another turn of the room, so that in the
\* log every user turn but a last one in progress is followed by its
\* assistant turn
C24_AppendsNotInterleaved ==
    \A room_id \in Rooms :
        LET history == _get_history(histories, room_id)
        IN \A i \in 1..(Len(history) - 1) :
              history[i].role = "user" => history[i + 1].role = "assistant"

-----------------------------------------------------------------------------
(* Claims on the result of a turn *)

\* C25: the result of a turn carries a severity if and only if an alert was
\* created in that turn, and then the severity of that alert; without an
\* alert (also for an empty message) the severity is absent
C25_SeverityIffAlert ==
    \A t \in TurnIds :
        turns[t].pc \in {"returned", "failed"} =>
            /\ turns[t].result.severity # JNull <=> turns[t].alert_id # 0
            /\ turns[t].alert_id # 0 =>
                  /\ turns[t].alert_id \in DOMAIN alerts
                  /\ turns[t].result.severity = AlertOf(t).severity
            /\ EmptyTurn(t) => turns[t].result.severity = JNull

-----------------------------------------------------------------------------
(* Claims on termination *)

\* The requests a branch has made: those of its call in flight, or those
\* kept when the call has ended
RequestsOf(branch) ==
    IF branch.call.pc = "none" THEN Len(branch.attempts)
    ELSE Len(branch.call.log) + (IF InFlight(branch.call) THEN 1 ELSE 0)

AttemptsBounded ==
    \A t \in TurnIds :
        /\ RequestsOf(turns[t].chat) <= 2
        /\ RequestsOf(turns[t].cls) <= 2
        /\ \A branch \in {turns[t].chat, turns[t].cls} :
              \A i, j \in DOMAIN branch.attempts :
                 branch.attempts[i].provider = branch.attempts[j].provider
                    => i = j

\* The request ends: termination alone, whatever the way out
TurnsEnd ==
    \A t \in 1..MaxTurns :
        (turns[t].pc = "running") ~> (turns[t].pc \in {"returned", "failed"})

\* C26: as every provider attempt ends, every turn reaches the join and
\* returns; a branch makes at most two provider attempts and none is
\* repeated
C26_TurnReturns ==
    /\ \A t \in 1..MaxTurns :
          (turns[t].pc = "running") ~>
             (turns[t].pc = "returned" /\ BothDone(t))
    /\ []AttemptsBounded

-----------------------------------------------------------------------------
(* Claims on the life of an alert *)

StatusChain == {<<"new", "ack">>, <<"ack", "resolved">>}

\* C27: every alert is created with the status new, and its status changes
\* only along new -> ack -> resolved: acknowledge moves a new alert to ack,
\* resolve moves an acknowledged alert to resolved, and no status moves
\* backward
C27_StatusChain ==
    [][ /\ Len(alerts') >= Len(alerts)
        /\ \A i \in DOMAIN alerts' :
              IF i \in DOMAIN alerts
              THEN \/ alerts'[i].status = alerts[i].status
                   \/ <<alerts[i].status, alerts'[i].status>> \in StatusChain
              ELSE alerts'[i].status = "new"
      ]_vars

\* The part of C27 on the direction: a status never moves backward
StatusNeverBackward ==
    [][\A i \in DOMAIN alerts :
          <<alerts[i].status, alerts'[i].status>> \notin
             {<<"ack", "new">>, <<"resolved", "new">>, <<"resolved", "ack">>}
      ]_vars

\* The alert that the last acknowledge request named
Named(i) == probe.op = "acknowledge_alert" /\ probe.text = <<ToString(alerts[i].id)>>

\* C34: acknowledging an alert whose status is not new changes nothing:
\* status, acknowledged_at, acknowledged_by and notes of the alert stay as
\* they were, so that a later acknowledge never overwrites the attribution
\* of the first one
C34_AcknowledgeOnlyNew ==
    [][/\ probe'.op = "acknowledge_alert" =>
            /\ DOMAIN alerts' = DOMAIN alerts
            /\ \A i \in DOMAIN alerts :
                  alerts[i].status # "new" => alerts'[i] = alerts[i]
       /\ \A i \in DOMAIN alerts :
             alerts[i].status # "new" =>
                /\ alerts'[i].acknowledged_at = alerts[i].acknowledged_at
                /\ alerts'[i].acknowledged_by = alerts[i].acknowledged_by
      ]_vars

\* The last request was an acknowledge of an alert that Nurse Kim had
\* acknowledged with a note at the first of the two times and that was then
\* resolved at the second: the alert is still resolved, with Nurse Kim, the
\* first time and the note
C34_Witness ==
    \E i \in DOMAIN alerts :
        /\ Named(i)
        /\ alerts[i].status = "resolved"
        /\ alerts[i].acknowledged_by = JStr(<<"Nurse Kim">>)
        /\ alerts[i].acknowledged_at = NowIso
        /\ alerts[i].resolved_at # NowIso
        /\ alerts[i].resolved_by = JNull
        /\ alerts[i].notes = JStr(<<"checked">>)

-----------------------------------------------------------------------------
(* Claims on staff accounts and sessions *)

Deactivated(staff_id) ==
    /\ get_staff_by_id(staff, staff_id) # NoStaff
    /\ get_staff_by_id(staff, staff_id).is_active = 0

\* C28: after any sequence of login, logout, staff edit and deactivate
\* requests no stored session belongs to a deactivated account, and a login
\* with the credentials of a deactivated account creates no session: no
\* step stores a session of an account that was deactivated before the step
C28_DeactivatedHasNoSession ==
    /\ [](\A s \in sessions : ~Deactivated(s.staff_id))
    /\ [][\A s \in sessions' \ sessions : ~Deactivated(s.staff_id)]_vars

\* An account that has logged in is deactivated and has no session left,
\* while the admin's session is still stored
C28_Witness ==
    /\ \E i \in DOMAIN staff :
          /\ staff[i].is_active = 0
          /\ staff[i].last_login_at # JNull
          /\ \A s \in sessions : s.staff_id # staff[i].id
    /\ sessions # {}

-----------------------------------------------------------------------------
(* Claims on the span classify parses *)

\* The first span of the text that opens with "{", closes with "}" and has
\* no brace in between; <<>> when the text has none
FirstSpan(raw) ==
    LET opens == {i \in 1..Len(raw) :
                    /\ raw[i] = "{"
                    /\ \E j \in (i + 1)..Len(raw) :
                          /\ raw[j] = "}"
                          /\ \A k \in (i + 1)..(j - 1) : raw[k] \notin {"{", "}"}}
    IN IF opens = {} THEN <<>>
       ELSE LET i == CHOOSE i \in opens : \A k \in opens : i <= k
                j == CHOOSE j \in (i + 1)..Len(raw) :
                        raw[j] = "}" /\ \A k \in (i + 1)..(j - 1) : raw[k] # "}"
            IN SubSeq(raw, i, j)

\* The answers that are one JSON object with the four fields, and the
\* values of these fields
FourFieldAnswers ==
    {RawUrgent, ParseAnswers.braces_in_text, ParseAnswers.with_meta}

ValuesOf(raw) ==
    IF raw = ParseAnswers.braces_in_text
    THEN ClassificationResult(TRUE, Sev("urgent"), 90,
                              JStr(<<"said ", "{", "help", "}">>))
    ELSE ClassificationResult(TRUE, Sev("urgent"), 90, JStr(<<"pain">>))

\* What classify returns when it reads the text `part` of the answer
ReadFrom(part) ==
    LET loaded == json_loads(part)
    IN IF loaded.ok /\ loaded.isdict /\ ConfidenceCoercible(loaded.dict)
       THEN probe.tier = "model"
       ELSE probe.tier = "keyword" /\ probe.result = KeywordOf[probe.text]

\* C29: classify builds its result from the first span between braces of
\* the trimmed provider text that has no inner brace, whatever stands before
\* and after it, and parses the whole trimmed text only when there is no
\* such span; an answer that is one JSON object with the four fields is
\* classified with exactly the values of these fields
C29_FirstSpanParsed ==
    Classified =>
        LET raw == probe.call.text
        IN /\ FirstSpan(raw) # <<>> => ReadFrom(FirstSpan(raw))
           /\ FirstSpan(raw) = <<>> => ReadFrom(raw)
           /\ raw \in FourFieldAnswers =>
                 probe.tier = "model" /\ probe.result = ValuesOf(raw)

\* The first two parts of C29 alone
SpanParsed ==
    Classified =>
        LET raw == probe.call.text
        IN /\ FirstSpan(raw) # <<>> => ReadFrom(FirstSpan(raw))
           /\ FirstSpan(raw) = <<>> => ReadFrom(raw)

-----------------------------------------------------------------------------
(* Claims on the reply of a turn *)

AssistantTurns(history) ==
    Cardinality({i \in DOMAIN history : history[i].role = "assistant"})

\* The step in which the chat branch of turn t ends
ChatEnds(t) == turns[t].chat.pc # "done" /\ turns'[t].chat.pc = "done"

\* C30: for every non-empty turn the chat branch appends exactly one
\* assistant turn to the log of the room; its content, the reply returned
\* to the caller and the response stored in the question log for the turn
\* are the same text, from a provider or from the canned responder
C30_OneReplyText ==
    [][\A t \in TurnIds :
          /\ \A room_id \in Rooms :
                AssistantTurns(_get_history(histories', room_id))
                = AssistantTurns(_get_history(histories, room_id))
                  + Cardinality({s \in TurnIds :
                                    ChatEnds(s) /\ turns[s].room_id = room_id})
          /\ ChatEnds(t) =>
                LET history == _get_history(histories', turns[t].room_id)
                IN /\ history # <<>>
                   /\ history[Len(history)] =
                         [role |-> "assistant",
                          content |-> turns'[t].chat.response]
          /\ Handled(t) /\ Finalizes(t) =>
                /\ turns'[t].pc = "returned"
                /\ turns'[t].result.response = turns[t].chat.response
                /\ questions' = Append(questions,
                      QuestionRow(turns[t].room_id, turns[t].user_message,
                                  turns[t].chat.response))
      ]_vars

\* C30 for the turns that return
ReplyTextWhenReturned ==
    [][\A t \in TurnIds :
          /\ \A room_id \in Rooms :
                AssistantTurns(_get_history(histories', room_id))
                = AssistantTurns(_get_history(histories, room_id))
                  + Cardinality({s \in TurnIds :
                                    ChatEnds(s) /\ turns[s].room_id = room_id})
          /\ ChatEnds(t) =>
                LET history == _get_history(histories', turns[t].room_id)
                IN /\ history # <<>>
                   /\ history[Len(history)] =
                         [role |-> "assistant",
                          content |-> turns'[t].chat.response]
          /\ Handled(t) /\ Finalizes(t) /\ turns'[t].pc = "returned" =>
                /\ turns'[t].result.response = turns[t].chat.response
                /\ questions' = Append(questions,
                      QuestionRow(turns[t].room_id, turns[t].user_message,
                                  turns[t].chat.response))
      ]_vars

-----------------------------------------------------------------------------
(* Claims on the logs of the rooms *)

\* C31: the logs of the rooms are independent: an append for one room,
\* with its truncation, leaves the log of every other room unchanged, and
\* a turn handled for one room never changes the log of another room
C31_RoomsIndependent ==
    /\ [](\A room_id \in Rooms, role \in Roles, content \in AppendContents :
            \A other \in Rooms \ {room_id} :
                _get_history(_add_to_history(histories, room_id, role,
                                             content), other)
                = _get_history(histories, other))
    /\ [][/\ \A t \in TurnIds :
               turns'[t] # turns[t] =>
                   \A other \in Rooms \ {turns'[t].room_id} :
                       histories'[other] = histories[other]
          /\ \A room_id \in Rooms :
               histories'[room_id] # histories[room_id] =>
                   \E t \in TurnIds :
                       /\ turns[t].pc = "running"
                       /\ turns[t].room_id = room_id
                       /\ turns'[t].chat # turns[t].chat
         ]_vars

\* A turn of room 101 has replied and its two appends have pushed the two
\* oldest entries out of the full log, while a turn of room 102 waits for
\* its provider and the log of room 102 holds that turn's message after the
\* entries it had
C31_Witness ==
    \E t, u \in TurnIds :
        /\ turns[t].room_id = "101"
        /\ turns[t].chat.pc = "done"
        /\ Len(histories["101"]) = MAX_HISTORY
        /\ histories["101"][1] = WarmLog(MAX_HISTORY)[3]
        /\ turns[u].room_id = "102"
        /\ turns[u].pc = "running"
        /\ turns[u].chat.pc = "waiting"
        /\ histories["102"] = Append(WarmLog(MAX_HISTORY - 2), UserEntry(u))

\* A turn of the room is between its two appends
Replying(room_id) ==
    \E t \in TurnIds :
        /\ turns[t].pc = "running"
        /\ turns[t].room_id = room_id
        /\ turns[t].chat.pc = "waiting"

AssistantEntry(t) == [role |-> "assistant", content |-> turns[t].chat.response]

\* C32: when the turns of a room are handled one at a time, each non-empty
\* turn adds exactly two entries to the log of its room, its user turn
\* immediately followed by its assistant turn; in every reachable state
\* adjacent entries of a log alternate between the roles user and assistant
\* and the last entry after a completed turn is an assistant turn, also
\* after truncation to 20
C32_LogAlternates ==
    /\ [](\A room_id \in Rooms :
            LET history == _get_history(histories, room_id) IN
            /\ \A i \in 1..(Len(history) - 1) :
                  /\ history[i].role \in {"user", "assistant"}
                  /\ history[i].role # history[i + 1].role
            /\ ~Replying(room_id) /\ history # <<>> =>
                  history[Len(history)].role = "assistant"
            /\ \A t \in TurnIds :
                  turns[t].pc = "running" /\ turns[t].room_id = room_id =>
                     /\ turns[t].chat.pc = "waiting" =>
                           /\ history # <<>>
                           /\ history[Len(history)] = UserEntry(t)
                     /\ turns[t].chat.pc = "done" =>
                           /\ Len(history) >= 2
                           /\ history[Len(history) - 1] = UserEntry(t)
                           /\ history[Len(history)] = AssistantEntry(t))
    /\ [][\A room_id \in Rooms :
            LET old == _get_history(histories, room_id)
                new == _get_history(histories', room_id)
            IN new # old =>
                 \E t \in TurnIds :
                    /\ turns[t].pc = "running"
                    /\ turns[t].room_id = room_id
                    /\ turns'[t].pc = "running"
                    /\ \/ /\ turns[t].chat.pc = "ready"
                          /\ turns'[t].chat.pc = "waiting"
                          /\ new = Truncated(Append(old, UserEntry(t)))
                       \/ /\ turns[t].chat.pc = "waiting"
                          /\ turns'[t].chat.pc = "done"
                          /\ new = Truncated(Append(old, AssistantEntry(t)'))
                       \/ /\ turns[t].chat.pc = "ready"
                          /\ turns'[t].chat.pc = "done"
                          /\ new = Truncated(Append(
                                      Truncated(Append(old, UserEntry(t))),
                                      AssistantEntry(t)'))
         ]_vars

\* Two turns of one room, one after the other, on a log of 20 entries: the
\* log still holds 20 entries, the four oldest are gone, and it ends with
\* the user turn and the assistant turn of the second turn
C32_Witness ==
    \E t, u \in TurnIds, room_id \in Rooms :
        /\ t # u
        /\ turns[t].room_id = room_id
        /\ turns[t].pc = "returned"
        /\ turns[t].user_message # <<>>
        /\ turns[u].room_id = room_id
        /\ turns[u].pc = "running"
        /\ turns[u].chat.pc = "done"
        /\ Len(histories[room_id]) = MAX_HISTORY
        /\ histories[room_id][1] = WarmLog(MAX_HISTORY)[5]
        /\ histories[room_id][MAX_HISTORY - 3] = UserEntry(t)
        /\ histories[room_id][MAX_HISTORY - 1] = UserEntry(u)
        /\ histories[room_id][MAX_HISTORY] = AssistantEntry(u)

\* C33: a turn whose message is empty after trimming changes nothing: the
\* conversation log of the room, the question log and the alert store are
\* the same after the turn as before it
C33_EmptyTurnChangesNothing ==
    /\ [](\A t \in TurnIds : EmptyTurn(t) => turns[t].pc = "returned")
    /\ [][\A t \in TurnIds :
            \/ turns[t].pc = "new" /\ EmptyTurn(t)'
            \/ EmptyTurn(t) /\ turns'[t] # turns[t]
            => /\ histories' = histories
               /\ questions' = questions
               /\ alerts' = alerts
               /\ \A s \in TurnIds \ {t} : turns'[s] = turns[s]
         ]_vars

\* "  " was sent to a room whose log is full, after a turn of that room
\* that wrote a question and an alert: the blank turn has returned, the log
\* still ends with the entries of the earlier turn and the question log and
\* the alerts hold the one row each that the earlier turn wrote
C33_Witness ==
    \E t, u \in TurnIds :
        /\ EmptyTurn(t)
        /\ turns[t].pc = "returned"
        /\ turns[u].pc = "returned"
        /\ turns[u].room_id = turns[t].room_id
        /\ turns[u].alert_id = 1
        /\ Len(histories[turns[t].room_id]) = MAX_HISTORY
        /\ histories[turns[t].room_id][MAX_HISTORY] = AssistantEntry(u)
        /\ Len(questions) = 1
        /\ Len(alerts) = 1

-----------------------------------------------------------------------------
(* Claims on the admin routes *)

AdminRoutes == {"create", "edit", "deactivate"}

\* The session that authenticates the cookie of the last request to an
\* admin route, before the request: stored, not expired, with the role the
\* staff table holds for its account
Requester ==
    LET token == probe'.text[1]
        held  == {s \in sessions : s.token = token /\ ~Expired(s)}
    IN IF token = 0 \/ held = {}
       THEN NoSession
       ELSE LET row == CHOOSE s \in held : TRUE
                account == get_staff_by_id(staff, row.staff_id)
            IN [token |-> row.token, staff_id |-> row.staff_id,
                staff_name |-> row.staff_name,
                role |-> IF account = NoStaff THEN "nurse" ELSE account.role,
                csrf_token |-> row.csrf_token]

\* The request may act: a valid session, the admin role stored for its
\* account, the csrf token of the session; and no deactivation of oneself
MayAct ==
    /\ Requester # NoSession
    /\ Requester.role = "admin"
    /\ probe'.text[2] = Requester.csrf_token
    /\ probe'.op = "deactivate" => probe'.text[3] # Requester.staff_id

\* C35 as stated: a create, edit or deactivate request changes the staff
\* table or the sessions only when the requester has a valid session, the
\* role stored for the requester is admin and the csrf token submitted is
\* the session's; in every other case staff table and sessions are
\* unchanged, and an admin's deactivate request on the own account is
\* rejected
C35_AdminOnly ==
    [][probe'.op \in AdminRoutes /\ ~MayAct =>
          /\ staff' = staff
          /\ sessions' = sessions]_vars

\* C35, amended: as above, but a request that presents the token of an
\* expired session removes that session; everything else is unchanged
C35_AdminOnlyButExpiry ==
    [][probe'.op \in AdminRoutes /\ ~MayAct =>
          /\ staff' = staff
          /\ sessions' = {s \in sessions :
                            ~(s.token = probe'.text[1] /\ Expired(s))}]_vars

\* A nurse with a session of their own and its csrf token has asked the
\* deactivate route to deactivate the admin: the admin's account is still
\* active and the admin's session is still stored
C35_Witness ==
    /\ probe.op = "deactivate"
    /\ probe.text[3] = 1
    /\ \E s \in sessions :
          /\ s.token = probe.text[1]
          /\ ~Expired(s)
          /\ s.csrf_token = probe.text[2]
          /\ get_staff_by_id(staff, s.staff_id).role = "nurse"
    /\ get_staff_by_id(staff, 1).role = "admin"
    /\ get_staff_by_id(staff, 1).is_active = 1
    /\ \E s \in sessions : s.staff_id = 1 /\ ~Expired(s)

-----------------------------------------------------------------------------
(* Claims on the session token *)

\* C36: a session token authenticates a request if and only if a session
\* with that token is stored and its expiry time, 8 hours after its
\* creation, has not passed: get_session returns None for an unknown token,
\* deletes an expired session on lookup and returns None for it, and returns
\* None for a token after logout has deleted it
C36_TokenAuthenticates ==
    /\ [](\A token \in {0} \cup Tokens :
            LET got  == get_session(sessions, staff, token)
                held == {s \in sessions : s.token = token}
            IN /\ got.session # NoSession <=>
                     \E s \in held : s.age <= 8
               /\ held = {} =>
                     got = [session |-> NoSession, sessions |-> sessions]
               /\ \A s \in held :
                     IF s.age > 8
                     THEN got = [session |-> NoSession,
                                 sessions |-> sessions \ {s}]
                     ELSE /\ got.sessions = sessions
                          /\ got.session.token = token
                          /\ got.session.staff_id = s.staff_id
                          /\ got.session.csrf_token = s.csrf_token
               /\ get_session(delete_session(sessions, token), staff,
                              token).session = NoSession)
    /\ [][\A token \in Tokens :
            /\ \E s \in sessions : s.token = token
            /\ ~\E s \in sessions' : s.token = token
            => get_session(sessions', staff', token).session = NoSession
         ]_vars

\* Two sessions are stored: one is exactly 8 hours old and still
\* authenticates its token, the other is older and does not
C36_Witness ==
    \E s, x \in sessions :
        /\ s.age = 8
        /\ get_session(sessions, staff, s.token).session # NoSession
        /\ x.age > 8
        /\ get_session(sessions, staff, x.token).session = NoSession
        /\ x \notin get_session(sessions, staff, x.token).sessions

====
